---- MODULE Spec2Model ----
(***************************************************************************)
(* UniTune Music Link API: the cross-platform track resolution pipeline    *)
(* (src/app.py and the extractors, searchers and utils it calls).          *)
(*                                                                         *)
(* Python values are modelled as follows.  Strings are TLA+ strings, built *)
(* with \o the way the f-strings build them.  A dict is a record whose     *)
(* DOMAIN is the set of keys present; dict.get(k) is Get(d, k).  Python's  *)
(* None is the string None ("<None>") where a string is expected and the   *)
(* record Nil where a dict is; the empty string is falsy as in Python.  An *)
(* upstream service (Spotify, TIDAL, Deezer, YouTube, iTunes, an HTML      *)
(* page) is a nondeterministic answer drawn from a small set.              *)
(***************************************************************************)
EXTENDS Integers, Sequences, FiniteSets, TLC

None == "<None>"

\* Python truthiness of a str-or-None value
Truthy(v) == v # None /\ v # ""

\* dict.get(k) with the default None
Get(d, k) == IF k \in DOMAIN d THEN d[k] ELSE None

\* d[k] = v
Put(d, k, v) == [x \in (DOMAIN d) \cup {k} |-> IF x = k THEN v ELSE d[x]]

\* Python's None where a dict is expected
Nil == [nil |-> TRUE]

\* the empty dict {}
EmptyDict == [x \in {} |-> None]

\* an exception that leaves a call
Raised == [raised |-> TRUE]

(***************************************************************************)
(* Characters and the regular expressions of URLParser.PATTERNS.           *)
(***************************************************************************)
UpperChars == "ABCDEFGHIJKLMNOPQRSTUVWXYZ"
LowerChars == "abcdefghijklmnopqrstuvwxyz"
DigitChars == "0123456789"

CharAt(s, i) == SubSeq(s, i, i)

CharsOf(s) == {CharAt(s, i) : i \in 1..Len(s)}

\* str.lower() of one character (re.IGNORECASE compares case-folded)
LowerChar(c) ==
    IF c \in CharsOf(UpperChars)
    THEN CharAt(LowerChars, CHOOSE i \in 1..26 : CharAt(UpperChars, i) = c)
    ELSE c

\* str.upper() of one character
UpperChar(c) ==
    IF c \in CharsOf(LowerChars)
    THEN CharAt(UpperChars, CHOOSE i \in 1..26 : CharAt(LowerChars, i) = c)
    ELSE c

\* str.upper(), character by character
UpperOf[s \in STRING] ==
    IF s = "" THEN "" ELSE UpperChar(CharAt(s, 1)) \o UpperOf[Tail(s)]

\* str.upper()
Upper(s) == UpperOf[s]

\* The character classes the patterns use.  Under re.IGNORECASE a class of
\* letters matches both cases, so [a-z], [A-Z0-9] and [a-zA-Z0-9] are
\* stated on the case-folded character.
InClass(cls, c) ==
    LET lc == LowerChar(c) IN
    CASE cls = "digit"  -> c \in CharsOf(DigitChars)
      [] cls = "alpha"  -> lc \in CharsOf(LowerChars)
      [] cls = "alnum"  -> lc \in CharsOf(LowerChars) \cup CharsOf(DigitChars)
      [] cls = "ytid"   -> lc \in CharsOf(LowerChars) \cup CharsOf(DigitChars) \cup {"_", "-"}
      [] cls = "ua"     -> lc \in {"u", "a"}
      [] cls = "eqslash" -> c \in {"=", "/"}
      [] cls = "any"    -> TRUE
      [] OTHER          -> FALSE

\* a literal of a pattern matches s at position pos, ignoring case
LitAt(lit, s, pos) ==
    /\ pos + Len(lit) - 1 <= Len(s)
    /\ \A k \in 1..Len(lit) : LowerChar(CharAt(s, pos + k - 1)) = LowerChar(CharAt(lit, k))

\* the length of the longest run of characters of class cls in s from pos
RunLen(cls, s, pos) ==
    LET ends == {n \in 0..(Len(s) - pos + 1) :
                    \A k \in 0..(n - 1) : InClass(cls, CharAt(s, pos + k))}
    IN  CHOOSE n \in ends : \A m \in ends : m <= n

NoMatch == [ok |-> FALSE, group |-> None]

\* pattern elements
Lit(v)      == [t |-> "lit", v |-> v, sub |-> <<>>, n |-> 0]
Plus(cls)   == [t |-> "plus", v |-> cls, sub |-> <<>>, n |-> 1]   \* cls+
Star(cls)   == [t |-> "plus", v |-> cls, sub |-> <<>>, n |-> 0]   \* cls*
One(cls)    == [t |-> "one", v |-> cls, sub |-> <<>>, n |-> 1]    \* one character of cls
Group(cls)  == [t |-> "group", v |-> cls, sub |-> <<>>, n |-> 1]  \* (cls+), group 1
Opt(sub)    == [t |-> "opt", v |-> "", sub |-> sub, n |-> 0]      \* (?:sub)?

RECURSIVE MatchAt(_, _, _, _)
\* Python's backtracking match of the pattern p (a sequence of elements) on
\* s from position pos: greedy repetition, an optional group tried first
\* with its content.  group: the text of group 1 so far.
MatchAt(p, s, pos, group) ==
    IF p = <<>> THEN [ok |-> TRUE, group |-> group]
    ELSE
    LET e == Head(p)
        rest == Tail(p)
    IN
    CASE e.t = "lit" ->
            IF LitAt(e.v, s, pos) THEN MatchAt(rest, s, pos + Len(e.v), group) ELSE NoMatch
      [] e.t = "one" ->
            IF pos <= Len(s) /\ InClass(e.v, CharAt(s, pos))
            THEN MatchAt(rest, s, pos + 1, group) ELSE NoMatch
      [] e.t = "opt" ->
            LET with == MatchAt(e.sub \o rest, s, pos, group)
            IN  IF with.ok THEN with ELSE MatchAt(rest, s, pos, group)
      [] e.t \in {"plus", "group"} ->
            LET run == RunLen(e.v, s, pos)
                g(n) == IF e.t = "group" THEN SubSeq(s, pos, pos + n - 1) ELSE group
                good == {n \in e.n..run : MatchAt(rest, s, pos + n, g(n)).ok}
            IN  IF good = {} THEN NoMatch
                ELSE LET n == CHOOSE n \in good : \A m \in good : m <= n
                     IN  MatchAt(rest, s, pos + n, g(n))
      [] OTHER -> NoMatch

\* re.match(pattern, s, re.IGNORECASE): a match at the start of s only
ReMatch(p, s) == MatchAt(p, s, 1, None)

\* re.search(pattern, s, re.IGNORECASE): the leftmost match
ReSearch(p, s) ==
    LET starts == {i \in 1..(Len(s) + 1) : MatchAt(p, s, i, None).ok}
    IN  IF starts = {} THEN NoMatch
        ELSE MatchAt(p, s, CHOOSE i \in starts : \A j \in starts : i <= j, None)

\* str.strip(): leading and trailing blanks removed
RECURSIVE Strip(_)
Strip(s) ==
    IF s = "" THEN ""
    ELSE IF CharAt(s, 1) = " " THEN Strip(SubSeq(s, 2, Len(s)))
    ELSE IF CharAt(s, Len(s)) = " " THEN Strip(SubSeq(s, 1, Len(s) - 1))
    ELSE s

\* URLParser.PATTERNS, in declaration order (a dict keeps insertion order)
PATTERNS == <<
    [platform |-> "spotify", patterns |-> <<
        <<Lit("open.spotify.com/"), Opt(<<Lit("intl-"), Plus("alpha"), Lit("/")>>),
          Lit("track/"), Group("alnum"), Opt(<<Lit("?"), Star("any")>>)>>,
        <<Lit("spotify:track:"), Group("alnum")>> >>],
    [platform |-> "appleMusic", patterns |-> <<
        <<Lit("music.apple.com/"), Plus("any"), Lit("/album/"), Plus("any"),
          Lit("?i="), Group("digit")>>,
        <<Lit("music.apple.com/"), Plus("any"), Lit("/song/"), Plus("any"),
          Lit("/"), Group("digit")>> >>],
    [platform |-> "youtube", patterns |-> <<
        <<Lit("youtube.com/watch?v="), Group("ytid")>>,
        <<Lit("youtu.be/"), Group("ytid")>>,
        <<Lit("music.youtube.com/watch?v="), Group("ytid")>>,
        <<Lit("youtube.com/shorts/"), Group("ytid")>> >>],
    [platform |-> "deezer", patterns |-> <<
        <<Lit("deezer.com/"), Opt(<<One("alpha"), One("alpha"), Lit("/")>>),
          Lit("track/"), Group("digit")>>,
        <<Lit("deezer.page.link/"), Star("any"), Lit("track"), One("eqslash"),
          Group("digit")>> >>],
    [platform |-> "tidal", patterns |-> <<
        <<Lit("tidal.com/track/"), Group("digit"),
          Opt(<<Lit("/"), One("ua"), Opt(<<Lit("Log")>>)>>)>>,
        <<Lit("tidal.com/browse/track/"), Group("digit")>>,
        <<Lit("listen.tidal.com/track/"), Group("digit"),
          Opt(<<Lit("/"), One("ua"), Opt(<<Lit("Log")>>)>>)>>,
        <<Lit("tidal.com/browse/track/"), Group("digit"), Lit("/u")>> >>],
    [platform |-> "amazonMusic", patterns |-> <<
        <<Lit("music.amazon.com/albums/"), Group("alnum")>>,
        <<Lit("music.amazon.com/tracks/"), Group("alnum")>>,
        <<Lit("amazon.com/music/player/albums/"), Group("alnum")>>,
        <<Lit("amazon.com/music/player/tracks/"), Group("alnum")>> >>]
    >>

\* all (platform, pattern) pairs in the order parse() tries them
FlatPatterns ==
    LET RECURSIVE Flat(_)
        Flat(i) ==
            IF i > Len(PATTERNS) THEN <<>>
            ELSE [j \in 1..Len(PATTERNS[i].patterns) |->
                    [platform |-> PATTERNS[i].platform, p |-> PATTERNS[i].patterns[j]]]
                 \o Flat(i + 1)
    IN  Flat(1)

NotParsed == [platform |-> None, track_id |-> None]

\* URLParser.parse(url): the first pattern, in declaration order, that
\* re.search finds in the stripped url; None (NotParsed) when there is none
URLParserParse(url) ==
    IF ~Truthy(url) THEN NotParsed
    ELSE
    LET u == Strip(url)
        hits == {k \in 1..Len(FlatPatterns) : ReSearch(FlatPatterns[k].p, u).ok}
    IN  IF hits = {} THEN NotParsed
        ELSE LET k == CHOOSE k \in hits : \A j \in hits : k <= j
             IN  [platform |-> FlatPatterns[k].platform,
                  track_id |-> ReSearch(FlatPatterns[k].p, u).group]

(***************************************************************************)
(* The upstream world.  Bounds of the model.                               *)
(***************************************************************************)
\* number of tracks in the Spotify catalog the upstream can answer with
NumSpotifyTracks == 3

ARTIST == "Daft Punk"
TITLE == "One More Time"

SpotifyIds == {"sp" \o ToString(i) : i \in 1..NumSpotifyTracks}

\* The Spotify catalog: what sp.track(id) answers for a known id.  Track
\* spN has album images unless N % 3 = 2 and an ISRC unless N % 3 = 0.
SpotifyCatalog(id) ==
    LET n == CHOOSE i \in 1..NumSpotifyTracks : id = "sp" \o ToString(i) IN
    [id |-> id, name |-> TITLE, artist |-> ARTIST, album |-> "Discovery",
     isrc |-> IF n % 3 = 0 THEN None ELSE "GBDUW00000" \o ToString(n),
     image |-> IF n % 3 = 2 THEN None ELSE "https://i.scdn.co/image/" \o id,
     spotify_url |-> "https://open.spotify.com/track/" \o id]

(***************************************************************************)
(* extractors/spotify.py                                                   *)
(***************************************************************************)
\* SpotifyExtractor.get_track_metadata(track_id).  up: "ok" when sp.track
\* answers, anything else an exception (HTTP error, timeout), caught.
SpotifyGetTrackMetadata(track_id, up) ==
    IF up # "ok" \/ track_id \notin SpotifyIds THEN Nil
    ELSE LET track == SpotifyCatalog(track_id) IN
         [id |-> track.id, title |-> track.name, artist |-> track.artist,
          album |-> track.album, isrc |-> track.isrc, thumbnail |-> track.image,
          url |-> track.spotify_url, platform |-> "spotify"]

\* what one sp.search call can answer: an exception, no items, or one item
SearchAnswers == {"error", "empty"} \cup SpotifyIds

\* search_track as it would be if the free-text query were sent after every
\* ISRC query that did not raise
SpotifySearchQueriesBoth(artist, title, isrc, up) ==
    IF Truthy(isrc)
    THEN <<"isrc:" \o isrc>> \o
         (IF up.isrcQ # "error" THEN <<"artist:" \o artist \o " track:" \o title>>
          ELSE <<>>)
    ELSE <<"artist:" \o artist \o " track:" \o title>>

\* the queries SpotifyExtractor.search_track sends, in order, lines 66-76:
\* the ISRC query when isrc is truthy; the free-text query unless the ISRC
\* query answered an item or raised
SpotifySearchQueries(artist, title, isrc, up) ==
    IF Truthy(isrc)
    THEN <<"isrc:" \o isrc>> \o
         (IF up.isrcQ = "empty" THEN <<"artist:" \o artist \o " track:" \o title>>
          ELSE <<>>)
    ELSE <<"artist:" \o artist \o " track:" \o title>>

\* the upstream answers one search_track call consumes
SpotifySearchUps == [isrcQ : SearchAnswers, textQ : SearchAnswers, track : {"ok", "error"}]

\* SpotifyExtractor.search_track(artist, title, isrc)
SpotifySearchTrack(artist, title, isrc, up) ==
    IF Truthy(isrc) /\ up.isrcQ = "error" THEN Nil
    ELSE IF Truthy(isrc) /\ up.isrcQ # "empty" THEN SpotifyGetTrackMetadata(up.isrcQ, up.track)
    ELSE IF up.textQ \in {"error", "empty"} THEN Nil
    ELSE SpotifyGetTrackMetadata(up.textQ, up.track)

(***************************************************************************)
(* extractors/tidal.py                                                     *)
(***************************************************************************)
\* the access tokens the auth endpoint issues
Tokens == {"token1"}

\* TidalExtractor.__init__: no token yet
NoToken == [access_token |-> None, token_type |-> None]

\* what the auth endpoint can answer: a token, or a failure (non-ok status,
\* exception, timeout)
AuthAnswers == {"fail"} \cup Tokens

\* the HTTP requests a call makes, as they are answered: a POST to AUTH_URL,
\* a GET to BASE_URL
TokenRequest(ok) == [kind |-> "token", ok |-> ok]
CatalogRequest(status) == [kind |-> "catalog", status |-> status]

\* TidalExtractor._get_access_token.  cred: TIDAL_CLIENT_ID and
\* TIDAL_CLIENT_SECRET are configured.  Returns the bool, the fields and
\* the request made.
TidalGetAccessToken(cred, tok, auth) ==
    IF ~cred THEN [ok |-> FALSE, tok |-> tok, requests |-> <<>>]
    ELSE IF auth \in Tokens
         THEN [ok |-> TRUE, tok |-> [access_token |-> auth, token_type |-> "Bearer"],
               requests |-> <<TokenRequest(TRUE)>>]
         ELSE [ok |-> FALSE, tok |-> tok, requests |-> <<TokenRequest(FALSE)>>]

\* What a catalog request can answer: status "error" (an exception, a
\* timeout, or a status that is neither ok nor 401), "401", or "ok" with
\* the fields read from the payload.
TidalFailures == {[status |-> "error"], [status |-> "401"]}

TidalTrackAnswers ==
    TidalFailures \cup
    [status : {"ok"}, title : {TITLE}, artist : {ARTIST}, isrc : {None, "GBDUW0000001"},
     imageCover : {"https://resources.tidal.com/images/cover/640x640.jpg"}]

TidalIds == {"258735410"}

\* id None: the search answered ok with no tracks
TidalSearchAnswers == TidalFailures \cup [status : {"ok"}, id : {None} \cup TidalIds]

TidalTrackUps == [auth1 : AuthAnswers, req1 : TidalTrackAnswers,
                  auth2 : AuthAnswers, req2 : TidalTrackAnswers]
TidalSearchUps == [auth1 : AuthAnswers, req1 : TidalSearchAnswers,
                   auth2 : AuthAnswers, req2 : TidalSearchAnswers]

\* a skeleton that refreshes the token again and repeats the request again
\* when the repeated request is answered 401 too
TidalRequestRefreshLoop(cred, tok, up) ==
    LET first == IF ~Truthy(tok.access_token)
                 THEN TidalGetAccessToken(cred, tok, up.auth1)
                 ELSE [ok |-> TRUE, tok |-> tok, requests |-> <<>>]
        q1 == first.requests \o <<CatalogRequest(up.req1.status)>>
    IN  IF ~first.ok
        THEN [response |-> [status |-> "none"], tok |-> first.tok,
              requests |-> first.requests]
        ELSE IF up.req1.status = "401"
        THEN LET again == TidalGetAccessToken(cred, first.tok, up.auth2)
                 q2 == q1 \o again.requests \o <<CatalogRequest(up.req2.status)>>
             IN  IF again.ok
                 THEN IF up.req2.status = "401"
                      THEN LET third == TidalGetAccessToken(cred, again.tok, up.auth1)
                           IN  [response |-> up.req1, tok |-> third.tok,
                                requests |-> q2 \o third.requests
                                             \o <<CatalogRequest(up.req1.status)>>]
                      ELSE [response |-> up.req2, tok |-> again.tok, requests |-> q2]
                 ELSE [response |-> up.req1, tok |-> again.tok,
                       requests |-> q1 \o again.requests]
        ELSE [response |-> up.req1, tok |-> first.tok, requests |-> q1]

\* The request/refresh/retry skeleton shared by get_track_metadata and
\* search_track: ensure a token, request, on 401 re-acquire once and repeat
\* once.  Returns the final response (status "none" when no request was
\* made), the token fields and the requests made, in order.
TidalRequest(cred, tok, up) ==
    LET first == IF ~Truthy(tok.access_token)
                 THEN TidalGetAccessToken(cred, tok, up.auth1)
                 ELSE [ok |-> TRUE, tok |-> tok, requests |-> <<>>]
        q1 == first.requests \o <<CatalogRequest(up.req1.status)>>
    IN  IF ~first.ok
        THEN [response |-> [status |-> "none"], tok |-> first.tok,
              requests |-> first.requests]
        ELSE IF up.req1.status = "401"
        THEN LET again == TidalGetAccessToken(cred, first.tok, up.auth2)
             IN  IF again.ok
                 THEN [response |-> up.req2, tok |-> again.tok,
                       requests |-> q1 \o again.requests
                                    \o <<CatalogRequest(up.req2.status)>>]
                 ELSE [response |-> up.req1, tok |-> again.tok,
                       requests |-> q1 \o again.requests]
        ELSE [response |-> up.req1, tok |-> first.tok, requests |-> q1]

\* TidalExtractor.get_track_metadata(track_id): [res, tok]
TidalGetTrackMetadata(cred, tok, track_id, up) ==
    LET r == TidalRequest(cred, tok, up) IN
    IF r.response.status # "ok" THEN [res |-> Nil, tok |-> r.tok]
    ELSE [res |-> [id |-> track_id, title |-> r.response.title,
                   artist |-> r.response.artist, isrc |-> r.response.isrc,
                   thumbnailUrl |-> r.response.imageCover,
                   url |-> "https://tidal.com/browse/track/" \o track_id,
                   apiProvider |-> "tidal", platforms |-> <<"tidal">>],
          tok |-> r.tok]

\* TidalExtractor.search_track(artist, title, isrc): [res, tok]
TidalSearchTrack(cred, tok, artist, title, isrc, up) ==
    LET r == TidalRequest(cred, tok, up) IN
    IF r.response.status # "ok" \/ ~Truthy(r.response.id) THEN [res |-> Nil, tok |-> r.tok]
    ELSE [res |-> [url |-> "https://tidal.com/browse/track/" \o r.response.id,
                   id |-> r.response.id, is_search |-> FALSE],
          tok |-> r.tok]

(***************************************************************************)
(* extractors/web_scraper.py                                               *)
(***************************************************************************)
\* What a scraped page (or the iTunes lookup) yields after the tag parsing:
\* ok FALSE (exception, non-ok status), or the title, artist and image
\* found.  An empty artist is a page the parsing got no artist from.
PageAnswers ==
    {[ok |-> FALSE]} \cup
    [ok : {TRUE}, title : {TITLE}, artist : {ARTIST, ""},
     image : {"https://cdn.example/art/100x100.jpg"}]

\* the part of scrape_* after title and artist are known: the Spotify
\* result retagged with the source platform, else the basic metadata
Retag(found, track_id, page, url, provider, thumb, always) ==
    IF found # Nil
    THEN LET a == Put(Put(Put(found, "url", url), "id", track_id), "apiProvider", provider)
         IN  IF always \/ Truthy(thumb) THEN Put(a, "thumbnailUrl", thumb) ELSE a
    ELSE [id |-> track_id, title |-> page.title, artist |-> page.artist, url |-> url,
          thumbnailUrl |-> thumb, apiProvider |-> provider, platforms |-> <<provider>>]

\* one iteration of the loop of scrape_tidal over its two urls
ScrapeTidalUrl(track_id, url, page, sp) ==
    IF ~page.ok THEN Nil
    ELSE IF ~(Truthy(page.title) /\ Truthy(page.artist)) THEN Nil
    ELSE Retag(SpotifySearchTrack(page.artist, page.title, None, sp),
               track_id, page, url, "tidal", page.image, FALSE)

ScrapeTidalUps == [page1 : PageAnswers, page2 : PageAnswers, sp : SpotifySearchUps]

\* WebScraper.scrape_tidal(track_id)
ScrapeTidal(track_id, up) ==
    LET first == ScrapeTidalUrl(track_id, "https://tidal.com/browse/track/" \o track_id,
                                up.page1, up.sp)
    IN  IF first # Nil THEN first
        ELSE ScrapeTidalUrl(track_id, "https://listen.tidal.com/track/" \o track_id,
                            up.page2, up.sp)

\* trackViewUrl: the url of the iTunes lookup's answer
ScrapeUps == [page : PageAnswers, sp : SpotifySearchUps,
              trackViewUrl : {"https://music.apple.com/us/album/discovery/697194953?i=697195462"}]

\* WebScraper.scrape_apple_music(track_id)
ScrapeAppleMusic(track_id, up) ==
    IF ~up.page.ok THEN Nil
    ELSE IF ~(Truthy(up.page.artist) /\ Truthy(up.page.title)) THEN Nil
    ELSE Retag(SpotifySearchTrack(up.page.artist, up.page.title, None, up.sp),
               track_id, up.page,
               IF up.trackViewUrl # None THEN up.trackViewUrl
               ELSE "https://music.apple.com/song/" \o track_id,
               "appleMusic",
               IF up.page.image = None THEN "" ELSE "https://cdn.example/art/640x640.jpg",
               TRUE)

\* WebScraper.scrape_amazon_music(track_id)
ScrapeAmazonMusic(track_id, up) ==
    IF ~up.page.ok THEN Nil
    ELSE IF ~(Truthy(up.page.title) /\ Truthy(up.page.artist)) THEN Nil
    ELSE Retag(SpotifySearchTrack(up.page.artist, up.page.title, None, up.sp),
               track_id, up.page, "https://music.amazon.com/albums/" \o track_id,
               "amazonMusic", up.page.image, FALSE)

(***************************************************************************)
(* extractors/universal.py                                                 *)
(***************************************************************************)
\* what the Deezer track API / the YouTube videos API yield: ok FALSE, or
\* the artist, title and (Deezer) ISRC read from the payload
UniversalAnswers ==
    {[ok |-> FALSE]} \cup
    [ok : {TRUE}, title : {TITLE}, artist : {ARTIST, ""}, isrc : {None, "GBDUW0000001"}]

UniversalUps == [api : UniversalAnswers, sp : SpotifySearchUps]

\* UniversalExtractor.extract_from_deezer(track_id): the Spotify result as is
ExtractFromDeezer(track_id, up) ==
    IF ~up.api.ok THEN Nil
    ELSE IF ~(Truthy(up.api.artist) /\ Truthy(up.api.title)) THEN Nil
    ELSE SpotifySearchTrack(up.api.artist, up.api.title, up.api.isrc, up.sp)

\* UniversalExtractor.extract_from_youtube(video_id).  key: YOUTUBE_API_KEY
\* is configured.  The title heuristics are upstream of the answer.
ExtractFromYoutube(key, video_id, up) ==
    IF ~key THEN Nil
    ELSE IF ~up.api.ok THEN Nil
    ELSE IF ~(Truthy(up.api.artist) /\ Truthy(up.api.title)) THEN Nil
    ELSE SpotifySearchTrack(up.api.artist, up.api.title, None, up.sp)

(***************************************************************************)
(* searchers/                                                              *)
(***************************************************************************)
\* f"{artist} {title}".replace(' ', '+') for the strings of the model
PlusJoinOf[q \in STRING] ==
    IF q = "" THEN ""
    ELSE (IF CharAt(q, 1) = " " THEN "+" ELSE CharAt(q, 1)) \o PlusJoinOf[Tail(q)]

PlusJoin(q) == PlusJoinOf[q]

\* urllib.parse.quote for the strings of the model: a blank becomes %20
QuoteOf[q \in STRING] ==
    IF q = "" THEN ""
    ELSE (IF CharAt(q, 1) = " " THEN "%20" ELSE CharAt(q, 1)) \o QuoteOf[Tail(q)]

Quote(q) == QuoteOf[q]

\* a searcher that answers with a track of the catalog
AppleMusicSearchVerified(artist, title) ==
    [url |-> "https://music.apple.com/us/album/discovery/697194953?i=697195462",
     is_search |-> FALSE]

\* AppleMusicSearcher.search(artist, title)
AppleMusicSearch(artist, title) ==
    [url |-> "https://music.apple.com/search?term=" \o PlusJoin(artist \o " " \o title),
     is_search |-> TRUE]

\* AmazonMusicSearcher.search(artist, title)
AmazonMusicSearch(artist, title) ==
    [url |-> "https://music.amazon.com/search/" \o PlusJoin(artist \o " " \o title),
     is_search |-> TRUE]

DeezerIds == {"3135556"}

\* what a Deezer API call can answer: "error" (exception, timeout, non-ok
\* status), "empty" (an error payload, no data) or the id of the first track
DeezerAnswers == {"error", "empty"} \cup DeezerIds

DeezerUps == [isrcQ : DeezerAnswers, textQ : DeezerAnswers]

\* DeezerSearcher._fallback_link
DeezerFallbackLink(artist, title) ==
    [url |-> "https://www.deezer.com/search/" \o PlusJoin(artist \o " " \o title),
     is_search |-> TRUE]

\* the dict _search_by_isrc and _search_by_query build from a hit
DeezerHit(id) ==
    [url |-> "https://www.deezer.com/track/" \o id, id |-> id,
     title |-> TITLE, artist |-> ARTIST, is_search |-> FALSE]

\* a search whose generic search link is not flagged
DeezerSearchUnflagged(artist, title, isrc, up) ==
    IF Truthy(isrc) /\ up.isrcQ \in DeezerIds THEN DeezerHit(up.isrcQ)
    ELSE IF up.textQ \in DeezerIds THEN DeezerHit(up.textQ)
    ELSE [url |-> "https://www.deezer.com/search/" \o PlusJoin(artist \o " " \o title),
          is_search |-> FALSE]

\* DeezerSearcher.search(artist, title, isrc)
DeezerSearch(artist, title, isrc, up) ==
    IF Truthy(isrc) /\ up.isrcQ \in DeezerIds THEN DeezerHit(up.isrcQ)
    ELSE IF up.textQ \in DeezerIds THEN DeezerHit(up.textQ)
    ELSE DeezerFallbackLink(artist, title)

\* TidalSearcher.search(artist, title, isrc): [res, tok], on the searcher's
\* own TidalExtractor.  search_track catches what its requests raise, so
\* the except branch of search (return None) has nothing to catch.
TidalSearch(cred, tok, artist, title, isrc, up) ==
    LET r == TidalSearchTrack(cred, tok, artist, title, isrc, up) IN
    IF r.res # Nil THEN r
    ELSE [res |-> [url |-> "https://listen.tidal.com/search?q=" \o Quote(artist \o " " \o title),
                   id |-> "search", is_search |-> TRUE],
          tok |-> r.tok]

YoutubeIds == {"FGBhQbmPwH8"}

\* what the YouTube search API can answer: "error" (exception, timeout),
\* "empty" (no items), or the video id picked from the items
YoutubeAnswers == {"error", "empty"} \cup YoutubeIds

\* YouTubeSearcher._fallback_link, and the same dict built inline
YoutubeFallbackLink(artist, title) ==
    [url |-> "https://music.youtube.com/search?q=" \o PlusJoin(artist \o " " \o title),
     youtube_url |-> "https://www.youtube.com/results?search_query="
                     \o PlusJoin(artist \o " " \o title),
     is_search |-> TRUE]

\* a search without the try/except of lines 46-85: the API's exception
\* leaves the call
YoutubeSearchRaises(client, artist, title, up) ==
    IF ~client THEN YoutubeFallbackLink(artist, title)
    ELSE IF up = "error" THEN Raised
    ELSE IF up = "empty" THEN YoutubeFallbackLink(artist, title)
    ELSE [url |-> "https://music.youtube.com/watch?v=" \o up,
          youtube_url |-> "https://www.youtube.com/watch?v=" \o up,
          video_id |-> up, is_search |-> FALSE]

\* YouTubeSearcher.search(artist, title).  client: self.youtube is set.
YoutubeSearch(client, artist, title, up) ==
    IF ~client THEN YoutubeFallbackLink(artist, title)
    ELSE IF up \in {"error", "empty"} THEN YoutubeFallbackLink(artist, title)
    ELSE [url |-> "https://music.youtube.com/watch?v=" \o up,
          youtube_url |-> "https://www.youtube.com/watch?v=" \o up,
          video_id |-> up, is_search |-> FALSE]

(***************************************************************************)
(* utils/response_builder.py                                               *)
(***************************************************************************)
\* ResponseBuilder.build_response(metadata, links, source_platform)
BuildResponse(metadata, links, source_platform) ==
    LET entity_id == Upper(source_platform) \o "::TRACK::"
                     \o (IF "id" \in DOMAIN metadata THEN metadata.id ELSE "unknown")
    IN  [status |-> 200,
         entityUniqueId |-> entity_id,
         entity |-> [id |-> Get(metadata, "id"),
                     title |-> IF "title" \in DOMAIN metadata THEN metadata.title
                               ELSE "Unknown Title",
                     artistName |-> IF "artist" \in DOMAIN metadata THEN metadata.artist
                                    ELSE "Unknown Artist",
                     thumbnailUrl |-> Get(metadata, "thumbnail"),
                     apiProvider |-> source_platform,
                     platforms |-> DOMAIN links],
         linksByPlatform |->
             [p \in DOMAIN links |->
                 [url |-> links[p].url,
                  entityUniqueId |-> IF "entityUniqueId" \in DOMAIN links[p]
                                     THEN links[p].entityUniqueId ELSE entity_id]]]

\* ResponseBuilder.build_error_response(message, status_code)
BuildErrorResponse(message, status_code) == [status |-> status_code, error |-> message]

(***************************************************************************)
(* utils/link_encoder.py                                                   *)
(***************************************************************************)
\* the printable ASCII characters from the blank (32) to the tilde (126);
\* the backquote (96), which a string of this module cannot hold, is
\* written as a tab
Printable ==
    " !\"#$%&'()*+,-./0123456789:;<=>?@ABCDEFGHIJKLMNOPQRSTUVWXYZ[\\]^_\tabcdefghijklmnopqrstuvwxyz{|}~"

\* ord(c) and chr(n) on these characters
Ord(c) == 31 + (CHOOSE i \in 1..Len(Printable) : CharAt(Printable, i) = c)
Chr(n) == CharAt(Printable, n - 31)

\* s.encode('utf-8') for a string of ASCII characters: its bytes
Utf8Encode(s) == [i \in 1..Len(s) |-> Ord(CharAt(s, i))]

\* the alphabet of base64.urlsafe_b64encode
UrlSafeAlphabet == "ABCDEFGHIJKLMNOPQRSTUVWXYZabcdefghijklmnopqrstuvwxyz0123456789-_"

\* the k-th group of six bits of the bytes b, missing bits zero
Sextet(b, k) ==
    LET j == ((6 * (k - 1)) \div 8) + 1
        off == (6 * (k - 1)) % 8
        w == b[j] * 256 + (IF j + 1 \in DOMAIN b THEN b[j + 1] ELSE 0)
    IN  (w \div (2 ^ (10 - off))) % 64

\* the strings of the sequence q, concatenated
Concat(q) ==
    LET upto[k \in 0..Len(q)] == IF k = 0 THEN "" ELSE upto[k - 1] \o q[k]
    IN  upto[Len(q)]

\* base64.urlsafe_b64encode(b) with the padding stripped: rstrip('=')
UrlSafeB64EncodeStripped(b) ==
    Concat([k \in 1..((8 * Len(b) + 5) \div 6) |->
               CharAt(UrlSafeAlphabet, Sextet(b, k) + 1)])

\* LinkEncoder.encode(platform, track_id), link_type 'track'
LinkEncoderEncode(platform, id) ==
    UrlSafeB64EncodeStripped(Utf8Encode(platform \o ":track:" \o id))

\* the value of a character of the url-safe alphabet
SextetOf(c) == (CHOOSE i \in 1..64 : CharAt(UrlSafeAlphabet, i) = c) - 1

\* the j-th byte the groups of six bits v hold
ByteOf(v, j) ==
    LET k == ((8 * (j - 1)) \div 6) + 1
        off == (8 * (j - 1)) % 6
        w == v[k] * 64 + v[k + 1]
    IN  (w \div (2 ^ (4 - off))) % 256

\* base64.urlsafe_b64decode of the characters e of the alphabet, padded by
\* LinkEncoder.decode to a multiple of four: the bytes, or raised
\* (binascii.Error) when one character is left over
UrlSafeB64Decode(e) ==
    IF Len(e) % 4 = 1 THEN [raised |-> TRUE, bytes |-> <<>>]
    ELSE LET v == [k \in 1..Len(e) |-> SextetOf(CharAt(e, k))]
         IN  [raised |-> FALSE,
              bytes |-> [j \in 1..((6 * Len(e)) \div 8) |-> ByteOf(v, j)]]

\* s.split(':'): the pieces of s between its colons
Split(s) ==
    LET colons == {i \in 1..Len(s) : CharAt(s, i) = ":"}
        colon(k) == CHOOSE i \in colons : Cardinality({j \in colons : j < i}) = k - 1
        first(k) == IF k = 1 THEN 1 ELSE colon(k - 1) + 1
        last(k) == IF k = Cardinality(colons) + 1 THEN Len(s) ELSE colon(k) - 1
    IN  [k \in 1..(Cardinality(colons) + 1) |->
            IF first(k) > last(k) THEN "" ELSE SubSeq(s, first(k), last(k))]

\* LinkEncoder.decode(encoded_id): the tuple (platform, link_type, track_id)
\* as a record, or Nil for None: the base64 decoding raised, the bytes are
\* not text (here: not printable ASCII), or there are not three parts
LinkEncoderDecode(encoded_id) ==
    LET d == UrlSafeB64Decode(encoded_id)
        b == d.bytes
    IN  IF d.raised THEN Nil
        ELSE IF \E j \in 1..Len(b) : b[j] < 32 \/ b[j] > 126 THEN Nil
        ELSE LET parts == Split(Concat([j \in 1..Len(b) |-> Chr(b[j])]))
             IN  IF Len(parts) # 3 THEN Nil
                 ELSE [platform |-> parts[1], link_type |-> parts[2],
                       track_id |-> parts[3]]

(***************************************************************************)
(* app.py: the state.                                                      *)
(***************************************************************************)
VARIABLES
    youtubeKey,     \* Config.YOUTUBE_API_KEY is set
    youtubeClient,  \* youtube_searcher.youtube is not None
    tidalCred,      \* Config.TIDAL_CLIENT_ID and TIDAL_CLIENT_SECRET are set
    extractorTok,   \* tidal_extractor.access_token, .token_type
    searcherTok,    \* tidal_searcher.extractor.access_token, .token_type
    pc,             \* where the request handler is
    endpoint,       \* the route being served
    music_url,      \* _process_music_link's argument
    platform,       \* locals of the handler
    track_id,
    metadata,
    primary,        \* history: metadata as the source extractor returned it
    isrc,
    cover,          \* spotify_cover_result
    links,
    nextSearcher,   \* index in SearcherOrder of the next searcher to call
    inflight,       \* searchers called whose call has not returned
    sres,           \* history: what each searcher's call returned
    lastFailed,     \* history: the searcher whose call returned last, when its
                    \* upstream call raised or timed out; else None
    calls,          \* history: the calls the handler made, in order
    response,       \* what the handler returned
    urls,           \* locals of convert_batch
    idx,
    results,
    errors,
    success_count,
    threads,        \* the requests served at the same time by worker threads:
                    \* where each is in TidalExtractor.get_track_metadata
    search,         \* the last SpotifyExtractor.search_track call: its arguments,
                    \* the queries it sent and what it returned
    singleLinks,    \* the links _process_music_link builds for the url and the
                    \* upstream answers of the last iteration of convert_batch
    share,          \* history: the encoded id handle_share_link was called with
                    \* and what LinkEncoder.decode made of it
    playlists,      \* the rows of the table 'playlists', by id
    now,            \* datetime.utcnow(), in days
    inserted,       \* history: the rows create_playlist inserted, in order
    reply           \* history: the last request to a playlist route, the table
                    \* before it and the response to it

config == <<youtubeKey, youtubeClient, tidalCred>>
locals == <<music_url, platform, track_id, metadata, primary, isrc, cover, links,
            nextSearcher, inflight, sres, lastFailed>>
vars == <<youtubeKey, youtubeClient, tidalCred, extractorTok, searcherTok, pc, endpoint,
          music_url, platform, track_id, metadata, primary, isrc, cover, links,
          nextSearcher, inflight, sres, lastFailed, calls, response,
          urls, idx, results, errors, success_count, threads, search,
          singleLinks, share, playlists, now, inserted, reply>>
batchLocals == <<urls, idx, results, errors, success_count>>
\* the state the handlers of this section and the next do not touch
playlistVars == <<playlists, now, inserted, reply>>
others == <<threads, search, singleLinks, share, playlistVars>>

\* the urls a client sends to /v1-alpha.1/links; None: no url parameter
LinkInputs ==
    {None,
     "https://example.com/track/12345",
     "https://open.spotify.com/track/sp1",
     "https://open.spotify.com/intl-de/track/sp2?si=abc",
     "https://open.spotify.com/track/unknown0",
     "https://tidal.com/browse/track/258735410",
     "https://music.apple.com/us/album/discovery/697194953?i=697195462",
     "https://music.amazon.com/albums/B00005NHG2",
     "https://www.deezer.com/track/3135556",
     "https://www.youtube.com/watch?v=FGBhQbmPwH8"}

\* URLParser.parse is a pure function: its values on the urls of the model
ParsedLinkInputs == [u \in LinkInputs \ {None} |-> URLParserParse(u)]

NoResponse == [status |-> 0]

\* number of worker threads serving requests at the same time
NumWorkers == 2

\* the worker threads of the server
Workers == 1..NumWorkers

\* a thread that serves no request.  headers: the Authorization header the
\* call built; result: what the call returned.
IdleThread == [pc |-> "idle", headers |-> None, result |-> Nil]

\* the handler's locals before a request
FreshLocals ==
    /\ music_url = None
    /\ platform = None
    /\ track_id = None
    /\ metadata = Nil
    /\ primary = Nil
    /\ isrc = None
    /\ cover = Nil
    /\ links = EmptyDict
    /\ nextSearcher = 1
    /\ inflight = {}
    /\ sres = EmptyDict
    /\ lastFailed = None

\* convert_batch's locals before a request
FreshBatchLocals ==
    /\ urls = Nil
    /\ idx = 0
    /\ results = <<>>
    /\ errors = <<>>
    /\ success_count = 0

\* the module-level construction of app.py, lines 29-43
Init ==
    /\ youtubeKey \in BOOLEAN
    /\ youtubeClient \in {FALSE, youtubeKey}
    /\ tidalCred \in BOOLEAN
    /\ extractorTok = NoToken
    /\ searcherTok = NoToken
    /\ pc = "idle"
    /\ endpoint = None
    /\ FreshLocals
    /\ FreshBatchLocals
    /\ calls = <<>>
    /\ response = NoResponse
    /\ threads = [w \in Workers |-> IdleThread]
    /\ search = Nil
    /\ singleLinks = Nil
    /\ share = Nil
    /\ playlists = EmptyDict
    /\ now = 0
    /\ inserted = <<>>
    /\ reply = Nil

\* return <value> from the handler
Return(r) ==
    /\ response' = r
    /\ pc' = "done"

(***************************************************************************)
(* app.py: _process_music_link                                             *)
(***************************************************************************)
\* lines 391-401: parse, 400 when not recognised
ProcessMusicLinkEntry(u) ==
    LET parsed == URLParserParse(u) IN
    /\ music_url' = u
    /\ calls' = <<"URLParser.parse">>
    /\ IF parsed = NotParsed
       THEN /\ Return(BuildErrorResponse("Unsupported URL format. Supported platforms: Spotify, Apple Music, YouTube, Deezer, TIDAL, Amazon Music", 400))
            /\ UNCHANGED <<platform, track_id>>
       ELSE /\ platform' = parsed.platform
            /\ track_id' = parsed.track_id
            /\ pc' = "extract"
            /\ UNCHANGED response

\* convert_link, lines 94-106
ConvertLink ==
    /\ pc = "idle"
    /\ endpoint' = "links"
    /\ \E u \in LinkInputs :
          IF ~Truthy(u)
          THEN /\ Return(BuildErrorResponse("Missing url parameter", 400))
               /\ UNCHANGED <<music_url, platform, track_id, calls>>
          ELSE ProcessMusicLinkEntry(u)
    /\ UNCHANGED batchLocals
    /\ UNCHANGED others
    /\ UNCHANGED <<config, extractorTok, searcherTok, metadata, primary, isrc, cover,
                   links, nextSearcher, inflight, sres, lastFailed>>

\* handle_share_link's platform_urls, lines 74-82
PlatformUrls(id) ==
    [spotify      |-> "https://open.spotify.com/track/" \o id,
     tidal        |-> "https://tidal.com/track/" \o id,
     appleMusic   |-> "https://music.apple.com/song/" \o id,
     youtube      |-> "https://youtube.com/watch?v=" \o id,
     youtubeMusic |-> "https://music.youtube.com/watch?v=" \o id,
     deezer       |-> "https://deezer.com/track/" \o id,
     amazonMusic  |-> "https://music.amazon.com/tracks/" \o id]

\* tracks a share link is made for: a platform tag of platform_urls and a
\* native id URLParser.parse returns for that platform
ShareTracks ==
    {[platform |-> "spotify",      id |-> "sp1"],
     [platform |-> "tidal",        id |-> "258735410"],
     [platform |-> "appleMusic",   id |-> "697195462"],
     [platform |-> "youtube",      id |-> "FGBhQbmPwH8"],
     [platform |-> "youtubeMusic", id |-> "FGBhQbmPwH8"],
     [platform |-> "deezer",       id |-> "3135556"],
     [platform |-> "amazonMusic",  id |-> "B00005NHG2"]}

\* the encoded ids a client opens /s/<encoded_id> with: the share links of
\* these tracks, a string that is no base64 of text, the encoding of
\* "tidal:track" and the encoding of "soundcloud:track:1"
ShareInputs ==
    {LinkEncoderEncode(t.platform, t.id) : t \in ShareTracks}
        \cup {"abc", "dGlkYWw6dHJhY2s", "c291bmRjbG91ZDp0cmFjazox"}

\* handle_share_link, lines 56-92
HandleShareLink ==
    /\ pc = "idle"
    /\ endpoint' = "share"
    /\ \E encoded_id \in ShareInputs :
       \E decoded \in {LinkEncoderDecode(encoded_id)} :
          LET reconstructed_url ==
                  Get(PlatformUrls(decoded.track_id), decoded.platform)
          IN  /\ share' = [encoded_id |-> encoded_id, decoded |-> decoded]
              /\ IF decoded = Nil
                 THEN /\ Return(BuildErrorResponse("Invalid share link format", 400))
                      /\ UNCHANGED <<music_url, platform, track_id, calls>>
                 ELSE IF ~Truthy(reconstructed_url)
                 THEN /\ Return(BuildErrorResponse(
                                    "Unsupported platform: " \o decoded.platform, 400))
                      /\ UNCHANGED <<music_url, platform, track_id, calls>>
                 ELSE ProcessMusicLinkEntry(reconstructed_url)
    /\ UNCHANGED batchLocals
    /\ UNCHANGED <<threads, search, singleLinks, playlistVars>>
    /\ UNCHANGED <<config, extractorTok, searcherTok, metadata, primary, isrc, cover,
                   links, nextSearcher, inflight, sres, lastFailed>>

\* the extractor call of lines 406-430 for the platforms other than the
\* second TIDAL strategy: the name of the call made
ExtractorCall(p) ==
    CASE p = "spotify"     -> "spotify_extractor.get_track_metadata"
      [] p = "tidal"       -> "web_scraper.scrape_tidal"
      [] p = "appleMusic"  -> "web_scraper.scrape_apple_music"
      [] p = "amazonMusic" -> "web_scraper.scrape_amazon_music"
      [] p = "deezer"      -> "universal_extractor.extract_from_deezer"
      [] p = "youtube"     -> "universal_extractor.extract_from_youtube"

\* the metadata that call can return, over the upstream answers
ExtractorResults(p, id, key) ==
    CASE p = "spotify"     -> {SpotifyGetTrackMetadata(id, up) : up \in {"ok", "error"}}
      [] p = "tidal"       -> {ScrapeTidal(id, up) : up \in ScrapeTidalUps}
      [] p = "appleMusic"  -> {ScrapeAppleMusic(id, up) : up \in ScrapeUps}
      [] p = "amazonMusic" -> {ScrapeAmazonMusic(id, up) : up \in ScrapeUps}
      [] p = "deezer"      -> {ExtractFromDeezer(id, up) : up \in UniversalUps}
      [] p = "youtube"     -> {ExtractFromYoutube(key, id, up) : up \in UniversalUps}

\* a handler that answers a missing track as a bad request
NotFoundResponseAs400(p) ==
    BuildErrorResponse("Track not found. Please check the URL and try again.", 400)

\* the 404 of lines 414-419, 431-435 and 437-441
NotFoundResponse(p) ==
    BuildErrorResponse(
        CASE p = "tidal" -> "TIDAL track not found. The track might be unavailable or the ID is incorrect."
          [] p = "youtube" -> "Could not extract track info from YouTube video. The video might not be a music track."
          [] OTHER -> "Track not found. Please check the URL and try again.",
        404)

\* lines 403-441 up to the first extractor call's return
Extract ==
    /\ pc = "extract"
    /\ calls' = Append(calls, ExtractorCall(platform))
    /\ \E m \in ExtractorResults(platform, track_id, youtubeKey) :
          /\ metadata' = m
          /\ primary' = m
          /\ IF m # Nil THEN pc' = "reconcile" /\ UNCHANGED response
             ELSE IF platform = "tidal" THEN pc' = "extract_tidal_api" /\ UNCHANGED response
             ELSE Return(NotFoundResponse(platform))
    /\ UNCHANGED batchLocals
    /\ UNCHANGED others
    /\ UNCHANGED <<config, extractorTok, searcherTok, endpoint, music_url, platform,
                   track_id, isrc, cover, links, nextSearcher, inflight, sres, lastFailed>>

\* lines 411-419: the TIDAL API after a failed scrape
ExtractTidalApi ==
    /\ pc = "extract_tidal_api"
    /\ calls' = Append(calls, "tidal_extractor.get_track_metadata")
    /\ \E r \in {TidalGetTrackMetadata(tidalCred, extractorTok, track_id, up) :
                    up \in TidalTrackUps} :
          /\ extractorTok' = r.tok
          /\ metadata' = r.res
          /\ primary' = r.res
          /\ IF r.res # Nil THEN pc' = "reconcile" /\ UNCHANGED response
             ELSE Return(NotFoundResponse(platform))
    /\ UNCHANGED batchLocals
    /\ UNCHANGED others
    /\ UNCHANGED <<config, searcherTok, endpoint, music_url, platform, track_id, isrc,
                   cover, links, nextSearcher, inflight, sres, lastFailed>>

\* a secondary lookup that is skipped when the source platform is Spotify
SecondarySearchSkipsSpotify(p, m, up) ==
    IF p = "spotify" THEN [called |-> FALSE, result |-> Nil]
    ELSE [called |-> TRUE,
          result |-> SpotifySearchTrack(m.artist, m.title, Get(m, "isrc"), up)]

\* lines 449-450: the Reconciler's secondary lookup, made for every source
\* platform ("ALWAYS get cover from Spotify (regardless of input platform)")
SecondarySearch(p, m, up) ==
    [called |-> TRUE,
     result |-> SpotifySearchTrack(m.artist, m.title, Get(m, "isrc"), up)]

\* a reconciliation that keeps a thumbnail the primary metadata has
ReconciledKeepsPrimary(m, c) ==
    IF c # Nil /\ Truthy(Get(c, "thumbnail")) /\ ~Truthy(Get(m, "thumbnail"))
    THEN Put(m, "thumbnail", c.thumbnail)
    ELSE m

\* a reconciliation that clears the thumbnail when the lookup failed
ReconciledClearsOnFailure(m, c) ==
    IF c # Nil /\ Truthy(Get(c, "thumbnail"))
    THEN LET m1 == Put(m, "thumbnail", c.thumbnail)
         IN  IF ~Truthy(Get(m1, "isrc")) /\ Truthy(Get(c, "isrc"))
             THEN Put(m1, "isrc", c.isrc)
             ELSE m1
    ELSE IF c = Nil THEN Put(m, "thumbnail", None)
    ELSE m

\* lines 451-456: the thumbnail override and, inside it, the ISRC backfill
Reconciled(m, c) ==
    IF c # Nil /\ Truthy(Get(c, "thumbnail"))
    THEN LET m1 == Put(m, "thumbnail", c.thumbnail)
         IN  IF ~Truthy(Get(m1, "isrc")) /\ Truthy(Get(c, "isrc"))
             THEN Put(m1, "isrc", c.isrc)
             ELSE m1
    ELSE m

\* lines 443-456
Reconcile ==
    /\ pc = "reconcile"
    /\ isrc' = Get(metadata, "isrc")
    /\ \E s \in {SecondarySearch(platform, metadata, up) : up \in SpotifySearchUps} :
          /\ cover' = s.result
          /\ metadata' = Reconciled(metadata, s.result)
          /\ calls' = IF s.called THEN Append(calls, "spotify_extractor.search_track")
                      ELSE calls
    /\ pc' = "aggregate"
    /\ UNCHANGED batchLocals
    /\ UNCHANGED others
    /\ UNCHANGED <<config, extractorTok, searcherTok, endpoint, music_url, platform,
                   track_id, primary, links, nextSearcher, inflight, sres, lastFailed,
                   response>>

\* a link entry of the links dict
Link(url, entityUniqueId) == [url |-> url, entityUniqueId |-> entityUniqueId]

\* lines 459-466: links = {} and the source platform's entry
SourceLinks(p, m) ==
    IF p # "spotify"
    THEN Put(EmptyDict, p, Link(m.url, Upper(p) \o "::TRACK::" \o m.id))
    ELSE EmptyDict

\* the spotify entry built from a Spotify result or from Spotify metadata
SpotifyLinkFrom(l, r) ==
    IF r # Nil THEN Put(l, "spotify", Link(r.url, "SPOTIFY::TRACK::" \o r.id)) ELSE l

\* a spotify entry that only ever reuses the Reconciler's result
SpotifyTargetReuseOnly(c, m, i, up) == [called |-> FALSE, result |-> c]

\* lines 473-486: the result the spotify entry of a non-Spotify source is
\* built from.  c: spotify_cover_result, reused when there is one; else
\* "Fallback: search again if cover search failed"
SpotifyTargetSearch(c, m, i, up) ==
    IF c # Nil THEN [called |-> FALSE, result |-> c]
    ELSE [called |-> TRUE, result |-> SpotifySearchTrack(m.artist, m.title, i, up)]

\* lines 458-492: the start of the aggregation and the spotify entry
AggregateSpotify ==
    /\ pc = "aggregate"
    /\ LET l0 == SourceLinks(platform, metadata) IN
       IF platform # "spotify"
       THEN \E s \in {SpotifyTargetSearch(cover, metadata, isrc, up) :
                          up \in SpotifySearchUps} :
               /\ links' = SpotifyLinkFrom(l0, s.result)
               /\ calls' = IF s.called
                           THEN Append(calls, "spotify_extractor.search_track")
                           ELSE calls
       ELSE /\ links' = SpotifyLinkFrom(l0, metadata)
            /\ UNCHANGED calls
    /\ pc' = "search"
    /\ UNCHANGED batchLocals
    /\ UNCHANGED others
    /\ UNCHANGED <<config, extractorTok, searcherTok, endpoint, music_url, platform,
                   track_id, metadata, primary, isrc, cover, nextSearcher, inflight, sres, lastFailed,
                   response>>

\* the searcher calls of lines 494-538, in program order
SearcherOrder == <<"youtube", "deezer", "tidal", "appleMusic", "amazonMusic">>

SearcherCall(s) ==
    CASE s = "youtube"     -> "youtube_searcher.search"
      [] s = "deezer"      -> "deezer_searcher.search"
      [] s = "tidal"       -> "tidal_searcher.search"
      [] s = "appleMusic"  -> "apple_music_searcher.search"
      [] s = "amazonMusic" -> "amazon_music_searcher.search"

\* the upstream answers a searcher's call can get
SearcherUps(s) ==
    CASE s = "youtube" -> YoutubeAnswers
      [] s = "deezer"  -> DeezerUps
      [] s = "tidal"   -> TidalSearchUps
      [] OTHER         -> {"none"}

\* with the answer up, searcher s found nothing because a call it made
\* upstream raised, timed out or was refused
SearcherFailed(s, client, cred, tok, i, up) ==
    CASE s = "youtube" -> client /\ up = "error"
      [] s = "deezer"  -> /\ ~(Truthy(i) /\ up.isrcQ \in DeezerIds)
                          /\ up.textQ \notin DeezerIds
                          /\ (Truthy(i) /\ up.isrcQ = "error") \/ up.textQ = "error"
      [] s = "tidal"   -> cred /\ TidalRequest(cred, tok, up).response.status # "ok"
      [] OTHER         -> FALSE

\* what searcher s returns for the answer up, and tidal_searcher's token
SearcherResult(s, client, cred, tok, artist, title, i, up) ==
    CASE s = "youtube"     -> [res |-> YoutubeSearch(client, artist, title, up), tok |-> tok]
      [] s = "deezer"      -> [res |-> DeezerSearch(artist, title, i, up), tok |-> tok]
      [] s = "tidal"       -> TidalSearch(cred, tok, artist, title, i, up)
      [] s = "appleMusic"  -> [res |-> AppleMusicSearch(artist, title), tok |-> tok]
      [] s = "amazonMusic" -> [res |-> AmazonMusicSearch(artist, title), tok |-> tok]

\* r.get(k, 'unknown')
GetOrUnknown(r, k) == IF k \in DOMAIN r THEN r[k] ELSE "unknown"

\* lines 496-538: what a searcher's result adds to links (nothing when falsy)
MergeResult(s, l, r) ==
    IF r = Nil THEN l
    ELSE CASE s = "youtube" ->
                LET l1 == Put(l, "youtubeMusic",
                              Link(r.url, "YOUTUBE::VIDEO::" \o GetOrUnknown(r, "video_id")))
                IN  IF "youtube_url" \in DOMAIN r
                    THEN Put(l1, "youtube",
                             Link(r.youtube_url,
                                  "YOUTUBE::VIDEO::" \o GetOrUnknown(r, "video_id")))
                    ELSE l1
           [] s = "deezer" ->
                Put(l, "deezer", Link(r.url, "DEEZER::TRACK::" \o GetOrUnknown(r, "id")))
           [] s = "tidal" ->
                Put(l, "tidal", Link(r.url, "TIDAL::TRACK::" \o GetOrUnknown(r, "id")))
           [] s = "appleMusic" ->
                Put(l, "appleMusic", Link(r.url, "APPLEMUSIC::SONG::unknown"))
           [] s = "amazonMusic" ->
                Put(l, "amazonMusic", Link(r.url, "AMAZONMUSIC::SONG::unknown"))

\* calls that wait for something that never comes
CanStartNever(called) == FALSE

\* calls that do not wait for one another
CanStartAlways(called) == TRUE

\* A searcher is called when the previous call has returned: the calls are
\* blocking calls made one after the other.
CanStart(called) == called = {}

\* a searcher's call is made
StartSearch ==
    /\ pc = "search"
    /\ nextSearcher <= Len(SearcherOrder)
    /\ CanStart(inflight)
    /\ inflight' = inflight \cup {SearcherOrder[nextSearcher]}
    /\ nextSearcher' = nextSearcher + 1
    /\ calls' = Append(calls, SearcherCall(SearcherOrder[nextSearcher]))
    /\ UNCHANGED batchLocals
    /\ UNCHANGED others
    /\ UNCHANGED <<config, extractorTok, searcherTok, pc, endpoint, music_url, platform,
                   track_id, metadata, primary, isrc, cover, links, sres, lastFailed,
                   response>>

\* the 500 Flask answers with when an exception leaves a view function
InternalServerError == [status |-> 500, error |-> "Internal server error"]

\* a searcher's call returns and its result is merged
FinishSearch ==
    /\ pc = "search"
    /\ \E s \in inflight :
          /\ inflight' = inflight \ {s}
          /\ \E o \in {[r |-> SearcherResult(s, youtubeClient, tidalCred, searcherTok,
                                                 metadata.artist, metadata.title, isrc, up),
                           failed |-> SearcherFailed(s, youtubeClient, tidalCred,
                                                     searcherTok, isrc, up)] :
                          up \in SearcherUps(s)} :
                LET r == o.r
                IN  /\ sres' = Put(sres, s, r.res)
                    /\ lastFailed' = IF o.failed THEN s ELSE None
                    /\ searcherTok' = r.tok
                    /\ IF r.res = Raised
                       THEN Return(InternalServerError) /\ UNCHANGED links
                       ELSE /\ links' = MergeResult(s, links, r.res)
                            /\ UNCHANGED <<pc, response>>
    /\ UNCHANGED batchLocals
    /\ UNCHANGED others
    /\ UNCHANGED <<config, extractorTok, endpoint, music_url, platform, track_id,
                   metadata, primary, isrc, cover, nextSearcher, calls>>

\* lines 540-543
Respond ==
    /\ pc = "search"
    /\ nextSearcher > Len(SearcherOrder)
    /\ inflight = {}
    /\ Return(BuildResponse(metadata, links, platform))
    /\ UNCHANGED batchLocals
    /\ UNCHANGED others
    /\ UNCHANGED <<config, extractorTok, searcherTok, endpoint, music_url, platform,
                   track_id, metadata, primary, isrc, cover, links, nextSearcher,
                   inflight, sres, lastFailed, calls>>

(***************************************************************************)
(* app.py: convert_batch                                                   *)
(***************************************************************************)
\* JSON values of a request body: a string, a number, an array
JStr(s) == [str |-> s]
JNum(n) == [num |-> n]
JList(q) == [list |-> q]

\* isinstance(v, list)
IsList(v) == "list" \in DOMAIN v

\* "Max 10 URLs", line 147
MaxBatchUrls == 10

\* longest urls array a client of the model sends
MaxBatchLen == 11

\* the items the arrays of the model are made of, in turn: an unsupported
\* url, a Spotify url, a number, a TIDAL url, an empty string
BatchUrls ==
    <<JStr("https://example.com/track/12345"),
      JStr("https://open.spotify.com/track/sp1"),
      JNum(42),
      JStr("https://tidal.com/browse/track/258735410"),
      JStr("")>>

\* the urls array of length n
Batch(n) == [i \in 1..n |-> BatchUrls[((i - 1) % Len(BatchUrls)) + 1]]

\* the JSON bodies a client posts to /v1-alpha.1/batch; Nil: no JSON body
BatchBodies ==
    {Nil, [preferred_service |-> JStr("spotify")],
     [urls |-> JStr("https://open.spotify.com/track/sp1")]}
    \cup {[urls |-> JList(Batch(n))] : n \in 0..MaxBatchLen}

\* no limit on the array
TooManyNever(list) == FALSE

\* len(urls) > 10, line 147
TooMany(list) == Len(list) > MaxBatchUrls

\* lines 136-153: the body's validation and the loop's initialisation
ConvertBatch ==
    /\ pc = "idle"
    /\ endpoint' = "batch"
    /\ calls' = <<>>
    /\ \E data \in BatchBodies :
          IF data = Nil
          THEN /\ Return(BuildErrorResponse("Invalid JSON body", 400))
               /\ UNCHANGED batchLocals
          ELSE LET u == IF "urls" \in DOMAIN data THEN data.urls ELSE JList(<<>>) IN
               /\ urls' = u
               /\ IF ~IsList(u) \/ u = JList(<<>>)
                  THEN /\ Return(BuildErrorResponse("Invalid request: urls array required", 400))
                       /\ UNCHANGED <<idx, results, errors, success_count>>
                  ELSE IF TooMany(u.list)
                  THEN /\ Return(BuildErrorResponse("Maximum 10 URLs allowed", 400))
                       /\ UNCHANGED <<idx, results, errors, success_count>>
                  ELSE /\ idx' = 0
                       /\ results' = <<>>
                       /\ errors' = <<>>
                       /\ success_count' = 0
                       /\ pc' = "batch_loop"
                       /\ UNCHANGED response
    /\ UNCHANGED others
    /\ UNCHANGED <<config, extractorTok, searcherTok, locals>>

\* URLParser.parse(url) on an item of the array: a number that is not 0 has
\* no strip() and raises
BatchParse(item) ==
    IF "num" \in DOMAIN item
    THEN IF item.num = 0
         THEN [raised |-> FALSE, parsed |-> NotParsed]
         ELSE [raised |-> TRUE, message |-> "'int' object has no attribute 'strip'"]
    ELSE [raised |-> FALSE, parsed |-> URLParserParse(item.str)]

\* BatchParse is a pure function: its values on the items of the model
ParsedItems == [item \in {BatchUrls[k] : k \in 1..Len(BatchUrls)} |-> BatchParse(item)]

\* The upstream answers one iteration consumes.  sp: Spotify answers; pages:
\* the scraped pages and the Deezer and YouTube track APIs answer; apis: the
\* TIDAL API and the searchers' APIs answer.
BatchUpstream(sp, pages, apis) ==
    LET tidalTrack == IF apis THEN [status |-> "ok", title |-> TITLE, artist |-> ARTIST,
                                    isrc |-> None,
                                    imageCover |-> "https://resources.tidal.com/images/cover/640x640.jpg"]
                      ELSE [status |-> "error"]
        tidalHit == IF apis THEN [status |-> "ok", id |-> "258735410"]
                    ELSE [status |-> "error"]
        auth == IF apis THEN "token1" ELSE "fail"
    IN  [track |-> IF sp THEN "ok" ELSE "error",
         sp |-> IF sp THEN [isrcQ |-> "sp1", textQ |-> "sp1", track |-> "ok"]
                ELSE [isrcQ |-> "error", textQ |-> "error", track |-> "error"],
         page |-> IF pages THEN [ok |-> TRUE, title |-> TITLE, artist |-> ARTIST,
                                 image |-> "https://cdn.example/art/100x100.jpg"]
                  ELSE [ok |-> FALSE],
         api |-> IF pages THEN [ok |-> TRUE, title |-> TITLE, artist |-> ARTIST,
                                isrc |-> None]
                 ELSE [ok |-> FALSE],
         tidalApi |-> [auth1 |-> auth, req1 |-> tidalTrack, auth2 |-> auth,
                       req2 |-> tidalTrack],
         youtube |-> IF apis THEN "FGBhQbmPwH8" ELSE "error",
         deezer |-> IF apis THEN [isrcQ |-> "3135556", textQ |-> "3135556"]
                    ELSE [isrcQ |-> "error", textQ |-> "error"],
         tidal |-> [auth1 |-> auth, req1 |-> tidalHit, auth2 |-> auth, req2 |-> tidalHit]]

\* everything answers; nothing does; Spotify does not; the pages do not
BatchUps ==
    {BatchUpstream(TRUE, TRUE, TRUE), BatchUpstream(FALSE, FALSE, FALSE),
     BatchUpstream(FALSE, TRUE, TRUE), BatchUpstream(TRUE, FALSE, TRUE)}

\* lines 170-185: the extraction of one item: [res, tok, calls]
BatchExtract(p, id, key, cred, tok, w) ==
    LET first ==
            CASE p = "spotify"     -> SpotifyGetTrackMetadata(id, w.track)
              [] p = "tidal"       -> ScrapeTidal(id, [page1 |-> w.page, page2 |-> w.page,
                                                       sp |-> w.sp])
              [] p = "appleMusic"  -> ScrapeAppleMusic(id,
                                          [page |-> w.page, sp |-> w.sp,
                                           trackViewUrl |-> "https://music.apple.com/us/album/discovery/697194953?i=697195462"])
              [] p = "amazonMusic" -> ScrapeAmazonMusic(id,
                                          [page |-> w.page, sp |-> w.sp,
                                           trackViewUrl |-> None])
              [] p = "deezer"      -> ExtractFromDeezer(id, [api |-> w.api, sp |-> w.sp])
              [] p = "youtube"     -> ExtractFromYoutube(key, id, [api |-> w.api, sp |-> w.sp])
    IN  IF p = "tidal" /\ first = Nil
        THEN LET r == TidalGetTrackMetadata(cred, tok, id, w.tidalApi)
             IN  [res |-> r.res, tok |-> r.tok,
                  calls |-> <<ExtractorCall(p), "tidal_extractor.get_track_metadata">>]
        ELSE [res |-> first, tok |-> tok, calls |-> <<ExtractorCall(p)>>]

\* lines 207-260: the links of one track; no entry for the source platform
\* other than Spotify's, no 'youtube' entry, no second Spotify search
BatchLinks(p, m, c, yt, dz, td, ap, am) ==
    LET l0 == IF p # "spotify" THEN SpotifyLinkFrom(EmptyDict, c)
              ELSE SpotifyLinkFrom(EmptyDict, m)
        l1 == IF yt # Nil
              THEN Put(l0, "youtubeMusic",
                       Link(yt.url, "YOUTUBE::VIDEO::" \o GetOrUnknown(yt, "video_id")))
              ELSE l0
    IN  MergeResult("amazonMusic",
            MergeResult("appleMusic",
                MergeResult("tidal", MergeResult("deezer", l1, dz), td), ap), am)

\* app.py lines 458-538: the links _process_music_link builds from the
\* metadata m of platform p, the Spotify result c and the searchers' results,
\* the Spotify search made again answering as the first did
SingleLinks(p, m, c, yt, dz, td, ap, am) ==
    LET l0 == IF p # "spotify" THEN SpotifyLinkFrom(SourceLinks(p, m), c)
              ELSE SpotifyLinkFrom(SourceLinks(p, m), m)
    IN  MergeResult("amazonMusic",
            MergeResult("appleMusic",
                MergeResult("tidal",
                    MergeResult("deezer", MergeResult("youtube", l0, yt), dz), td), ap), am)

\* an entry of errors that loses the index
BatchErrorNoIndex(i, url, message) == [index |-> 0, url |-> url, error |-> message]

\* an entry of errors
BatchError(i, url, message) == [index |-> i, url |-> url, error |-> message]

\* a step of the loop without a track
BatchFailure(e, etok, stok, made) ==
    [track |-> Nil, error |-> e, etok |-> etok, stok |-> stok, calls |-> made,
     single |-> Nil]

\* lines 262-270: the track appended for the metadata m0 as extracted, its
\* isrc i0, the Spotify result c and TIDAL's result td
BatchTrack(item, p, m0, i0, c, td, client, w, etok, made) ==
    [track |-> [original_url |-> item, title |-> m0.title, artist |-> m0.artist,
                thumbnail_url |-> Get(Reconciled(m0, c), "thumbnail"),
                links |-> BatchLinks(p, Reconciled(m0, c), c,
                                     YoutubeSearch(client, m0.artist, m0.title, w.youtube),
                                     DeezerSearch(m0.artist, m0.title, i0, w.deezer),
                                     td.res,
                                     AppleMusicSearch(m0.artist, m0.title),
                                     AmazonMusicSearch(m0.artist, m0.title))],
     error |-> Nil, etok |-> etok, stok |-> td.tok,
     calls |-> made \o
               <<"spotify_extractor.search_track", "youtube_searcher.search",
                 "deezer_searcher.search", "tidal_searcher.search",
                 "apple_music_searcher.search", "amazon_music_searcher.search">>,
     single |-> SingleLinks(p, Reconciled(m0, c), c,
                            YoutubeSearch(client, m0.artist, m0.title, w.youtube),
                            DeezerSearch(m0.artist, m0.title, i0, w.deezer),
                            td.res,
                            AppleMusicSearch(m0.artist, m0.title),
                            AmazonMusicSearch(m0.artist, m0.title))]

\* lines 187-260: after the extraction ex of an item of platform p
BatchExtracted(item, i, p, ex, client, cred, stok, w) ==
    IF ex.res = Nil
    THEN BatchFailure(BatchError(i, item, "Track not found"), ex.tok, stok,
                      <<"URLParser.parse">> \o ex.calls)
    ELSE BatchTrack(item, p, ex.res, Get(ex.res, "isrc"),
                    SpotifySearchTrack(ex.res.artist, ex.res.title, Get(ex.res, "isrc"), w.sp),
                    TidalSearch(cred, stok, ex.res.artist, ex.res.title,
                                Get(ex.res, "isrc"), w.tidal),
                    client, w, ex.tok, <<"URLParser.parse">> \o ex.calls)

\* lines 156-278: one iteration of the loop, for the item at index i, what
\* URLParser.parse made of it and the upstream answers w: the track or the
\* error it appends, the tokens it leaves and the calls it makes
BatchItem(item, parse, i, key, client, cred, etok, stok, w) ==
    IF parse.raised
    THEN BatchFailure(BatchError(i, item, parse.message), etok, stok, <<"URLParser.parse">>)
    ELSE IF parse.parsed = NotParsed
    THEN BatchFailure(BatchError(i, item, "Unsupported URL format"), etok, stok,
                      <<"URLParser.parse">>)
    ELSE BatchExtracted(item, i, parse.parsed.platform,
                        BatchExtract(parse.parsed.platform, parse.parsed.track_id, key,
                                     cred, etok, w),
                        client, cred, stok, w)

\* lines 155-278: the loop's next iteration
BatchIteration ==
    /\ pc = "batch_loop"
    /\ idx < Len(urls.list)
    /\ \E o \in {BatchItem(urls.list[idx + 1], ParsedItems[urls.list[idx + 1]], idx,
                           youtubeKey, youtubeClient, tidalCred,
                           extractorTok, searcherTok, w) : w \in BatchUps} :
          /\ results' = IF o.track # Nil THEN Append(results, o.track) ELSE results
          /\ success_count' = IF o.track # Nil THEN success_count + 1 ELSE success_count
          /\ errors' = IF o.error # Nil THEN Append(errors, o.error) ELSE errors
          /\ extractorTok' = o.etok
          /\ searcherTok' = o.stok
          /\ calls' = calls \o o.calls
          /\ singleLinks' = o.single
    /\ idx' = idx + 1
    /\ UNCHANGED <<threads, search, share, playlistVars>>
    /\ UNCHANGED <<config, pc, endpoint, locals, response, urls>>

\* lines 280-285
BatchRespond ==
    /\ pc = "batch_loop"
    /\ idx = Len(urls.list)
    /\ Return([status |-> 200, tracks |-> results, success_count |-> success_count,
               failed_count |-> Len(errors), errors |-> errors])
    /\ UNCHANGED others
    /\ UNCHANGED <<config, extractorTok, searcherTok, endpoint, locals, calls, batchLocals>>

\* the response is sent; the handler's locals are gone
Finish ==
    /\ pc = "done"
    /\ pc' = "idle"
    /\ endpoint' = None
    /\ music_url' = None
    /\ platform' = None
    /\ track_id' = None
    /\ metadata' = Nil
    /\ primary' = Nil
    /\ isrc' = None
    /\ cover' = Nil
    /\ links' = EmptyDict
    /\ nextSearcher' = 1
    /\ inflight' = {}
    /\ sres' = EmptyDict
    /\ lastFailed' = None
    /\ urls' = Nil
    /\ idx' = 0
    /\ results' = <<>>
    /\ errors' = <<>>
    /\ success_count' = 0
    /\ calls' = <<>>
    /\ response' = NoResponse
    /\ singleLinks' = Nil
    /\ share' = Nil
    /\ UNCHANGED <<threads, search, playlistVars>>
    /\ UNCHANGED <<config, extractorTok, searcherTok>>

Next ==
    \/ ConvertLink
    \/ Extract
    \/ ExtractTidalApi
    \/ Reconcile
    \/ AggregateSpotify
    \/ StartSearch
    \/ FinishSearch
    \/ Respond
    \/ Finish

Spec == Init /\ [][Next]_vars

\* the steps of a request that has begun.  Each is a blocking call that
\* returns or times out (timeout=5 and timeout=10 on every requests call),
\* so a step that can be taken is taken.
Progress ==
    \/ Extract
    \/ ExtractTidalApi
    \/ Reconcile
    \/ AggregateSpotify
    \/ StartSearch
    \/ FinishSearch
    \/ Respond

\* the server with the TIDAL credentials configured, so that both TIDAL
\* strategies and the token requests run, and no YouTube API key
LiveInit == Init /\ ~youtubeKey /\ tidalCred

\* the requests of the termination check: no url, a url no pattern matches,
\* and a TIDAL url, the platform whose resolution takes the most steps
LiveInputs ==
    {None,
     "https://example.com/track/12345",
     "https://tidal.com/browse/track/258735410"}

\* convert_link for one of these requests
LiveConvertLink == ConvertLink /\ music_url' \in LiveInputs

LiveNext ==
    \/ LiveConvertLink
    \/ Extract
    \/ ExtractTidalApi
    \/ Reconcile
    \/ AggregateSpotify
    \/ StartSearch
    \/ FinishSearch
    \/ Respond
    \/ Finish

LiveSpec == LiveInit /\ [][LiveNext]_vars /\ WF_vars(Progress)

\* the batch endpoint alone
BatchNext ==
    \/ ConvertBatch
    \/ BatchIteration
    \/ BatchRespond
    \/ Finish

BatchSpec == Init /\ [][BatchNext]_vars

\* the share-link endpoint alone
ShareNext ==
    \/ HandleShareLink
    \/ Extract
    \/ ExtractTidalApi
    \/ Reconcile
    \/ AggregateSpotify
    \/ StartSearch
    \/ FinishSearch
    \/ Respond
    \/ Finish

ShareSpec == Init /\ [][ShareNext]_vars

(***************************************************************************)
(* app.py: the playlist routes, over the table of models.py.  Each handler *)
(* works inside one database session.  The values of secrets.token_urlsafe *)
(* are taken never to repeat: the k-th playlist created gets the k-th id   *)
(* and the k-th delete token, so the first candidate id of lines 323-327   *)
(* is always free.  Times are whole days.                                  *)
(***************************************************************************)
\* Config.PLAYLIST_MAX_TRACKS and Config.PLAYLIST_TTL_DAYS, read from the
\* environment by config.py (defaults 500 and 180): the deployment modelled
PLAYLIST_MAX_TRACKS == 2
PLAYLIST_TTL_DAYS == 1

\* the number of playlists created and the last day of the clock
MaxPlaylists == 2
MaxNow == 2

\* secrets.token_urlsafe(8) with '-' and '_' removed, and
\* secrets.token_urlsafe(24), for the k-th playlist
PlaylistId(k) == "pl" \o ToString(k)
DeleteToken(k) == "token" \o ToString(k)

\* isinstance(track, dict), for a JSON value
IsDict(v) == DOMAIN v \cap {"str", "num", "list"} = {}

\* tracks a client sends
GoodTrack ==
    [title |-> " One More Time ", artist |-> ARTIST,
     originalUrl |-> "https://open.spotify.com/track/sp1"]
BareTrack ==
    [originalUrl |-> "https://tidal.com/browse/track/258735410",
     thumbnailUrl |-> "https://cdn.example/art/100x100.jpg"]

\* the JSON bodies a client posts to /v1/playlists: no body, a blank title,
\* tracks that are no list, no tracks, too many tracks, a track that is no
\* object, a track with a blank originalUrl, and two well-formed playlists
PlaylistBodies ==
    {EmptyDict,
     [title |-> " ", tracks |-> JList(<<GoodTrack>>)],
     [title |-> "Road trip", tracks |-> JStr("x")],
     [title |-> "Road trip", tracks |-> JList(<<>>)],
     [title |-> "Road trip",
      tracks |-> JList([i \in 1..(PLAYLIST_MAX_TRACKS + 1) |-> GoodTrack])],
     [title |-> "Road trip", tracks |-> JList(<<GoodTrack, JStr("x")>>)],
     [title |-> "Road trip",
      tracks |-> JList(<<[title |-> "x", originalUrl |-> " "]>>)],
     [title |-> "Road trip", tracks |-> JList(<<GoodTrack>>)],
     [title |-> " Gym ", description |-> "for the gym",
      tracks |-> JList(<<BareTrack, GoodTrack>>)]}

\* str(track.get(key, '')).strip() or None
StrippedOrNone(track, key) ==
    LET v == Strip(IF key \in DOMAIN track THEN track[key] ELSE "")
    IN  IF v = "" THEN None ELSE v

\* lines 307-308 and 309-311: the error a track is refused with, or None
TrackError(track) ==
    IF ~IsDict(track) THEN "Invalid track data"
    ELSE IF StrippedOrNone(track, "originalUrl") = None
    THEN "Track originalUrl required"
    ELSE None

\* lines 305-318: the loop over tracks returns at the first track refused
NormalizeTracks(q) ==
    LET bad == {i \in 1..Len(q) : TrackError(q[i]) # None} IN
    IF bad # {}
    THEN [error |-> TrackError(q[CHOOSE i \in bad : \A j \in bad : i <= j])]
    ELSE [error |-> None,
          tracks |-> [i \in 1..Len(q) |->
                        [title |-> StrippedOrNone(q[i], "title"),
                         artist |-> StrippedOrNone(q[i], "artist"),
                         originalUrl |-> StrippedOrNone(q[i], "originalUrl"),
                         thumbnailUrl |-> Get(q[i], "thumbnailUrl"),
                         addedAt |-> Get(q[i], "addedAt")]]]

\* datetime.isoformat() + 'Z'
IsoFormatZ(t) == ToString(t) \o "Z"

\* the state the playlist routes do not touch
resolutionVars == <<config, extractorTok, searcherTok, pc, endpoint, locals, calls,
                    response, batchLocals, threads, search, singleLinks, share>>

\* a request to a playlist route as the history keeps it
PlaylistRequest(method, playlist_id, token) ==
    [method |-> method, playlist_id |-> playlist_id, token |-> token, at |-> now,
     before |-> playlists]

\* create_playlist, lines 291-347
CreatePlaylist ==
    /\ Len(inserted) < MaxPlaylists
    /\ \E data \in PlaylistBodies :
          LET title == Strip(IF "title" \in DOMAIN data THEN data.title ELSE "")
              tracks == IF "tracks" \in DOMAIN data THEN data.tracks ELSE JList(<<>>)
              request == PlaylistRequest("POST", None, "")
              Refuse(message) ==
                  /\ reply' = [request |-> request,
                               response |-> BuildErrorResponse(message, 400)]
                  /\ UNCHANGED <<playlists, inserted>>
          IN  IF title = "" THEN Refuse("Missing title")
              ELSE IF ~IsList(tracks) THEN Refuse("Tracks required")
              ELSE IF Len(tracks.list) = 0 THEN Refuse("Tracks required")
              ELSE IF Len(tracks.list) > PLAYLIST_MAX_TRACKS THEN Refuse("Too many tracks")
              ELSE \E n \in {NormalizeTracks(tracks.list)} :
                   IF n.error # None THEN Refuse(n.error)
                   ELSE LET playlist ==
                                [id |-> PlaylistId(Len(inserted) + 1),
                                 delete_token |-> DeleteToken(Len(inserted) + 1),
                                 title |-> title,
                                 description |-> Get(data, "description"),
                                 tracks |-> n.tracks,
                                 created_at |-> now,
                                 updated_at |-> now,
                                 expires_at |-> now + PLAYLIST_TTL_DAYS]
                        IN  /\ playlists' = Put(playlists, playlist.id, playlist)
                            /\ inserted' = Append(inserted, playlist)
                            /\ reply' = [request |-> request,
                                         response |->
                                             [status |-> 201,
                                              id |-> playlist.id,
                                              deleteToken |-> playlist.delete_token,
                                              expiresAt |-> IsoFormatZ(playlist.expires_at)]]
    /\ UNCHANGED now
    /\ UNCHANGED resolutionVars

\* the ids and tokens of the requests to /v1/playlists/<playlist_id>: those
\* of the playlists, an id never issued, no token and a token never issued
RequestIds == {PlaylistId(k) : k \in 1..MaxPlaylists} \cup {"nosuchid"}
RequestTokens == {DeleteToken(k) : k \in 1..MaxPlaylists} \cup {"", "guess"}

\* session.delete(playlist); session.commit()
SessionDelete(table, playlist_id) ==
    [k \in DOMAIN table \ {playlist_id} |-> table[k]]

\* a playlist that never expires
ExpiredNever(playlist, utcnow) == FALSE

\* line 354: a row written by create_playlist always has an expires_at
Expired(playlist, utcnow) == playlist.expires_at < utcnow

\* get_playlist, lines 349-368
GetPlaylist ==
    /\ \E playlist_id \in RequestIds :
          LET request == PlaylistRequest("GET", playlist_id, "")
              playlist == playlists[playlist_id]
          IN  IF playlist_id \notin DOMAIN playlists
              THEN /\ reply' = [request |-> request,
                                response |-> BuildErrorResponse("Playlist not found", 404)]
                   /\ UNCHANGED playlists
              ELSE IF Expired(playlist, now)
              THEN /\ playlists' = SessionDelete(playlists, playlist_id)
                   /\ reply' = [request |-> request,
                                response |-> BuildErrorResponse("Playlist expired", 404)]
              ELSE /\ reply' = [request |-> request,
                                response |->
                                    [status |-> 200,
                                     id |-> playlist.id,
                                     title |-> playlist.title,
                                     description |-> playlist.description,
                                     tracks |-> playlist.tracks,
                                     createdAt |-> IsoFormatZ(playlist.created_at),
                                     updatedAt |-> IsoFormatZ(playlist.updated_at),
                                     expiresAt |-> IsoFormatZ(playlist.expires_at)]]
                   /\ UNCHANGED playlists
    /\ UNCHANGED <<now, inserted>>
    /\ UNCHANGED resolutionVars

\* a delete that takes any token
TokenMatchesAlways(playlist, token) == TRUE

\* line 379: playlist.delete_token != token is refused
TokenMatches(playlist, token) == playlist.delete_token = token

\* delete_playlist, lines 370-383
DeletePlaylist ==
    /\ \E playlist_id \in RequestIds, token \in RequestTokens :
          LET request == PlaylistRequest("DELETE", playlist_id, token) IN
          IF ~Truthy(token)
          THEN /\ reply' = [request |-> request,
                            response |-> BuildErrorResponse("Delete token required", 403)]
               /\ UNCHANGED playlists
          ELSE IF playlist_id \notin DOMAIN playlists
          THEN /\ reply' = [request |-> request,
                            response |-> BuildErrorResponse("Playlist not found", 404)]
               /\ UNCHANGED playlists
          ELSE IF ~TokenMatches(playlists[playlist_id], token)
          THEN /\ reply' = [request |-> request,
                            response |-> BuildErrorResponse("Invalid delete token", 403)]
               /\ UNCHANGED playlists
          ELSE /\ playlists' = SessionDelete(playlists, playlist_id)
               /\ reply' = [request |-> request,
                            response |-> [status |-> 200, body |-> "deleted"]]
    /\ UNCHANGED <<now, inserted>>
    /\ UNCHANGED resolutionVars

\* a day passes
Tick ==
    /\ now < MaxNow
    /\ now' = now + 1
    /\ UNCHANGED <<playlists, inserted, reply>>
    /\ UNCHANGED resolutionVars

\* the playlist routes alone
PlaylistNext ==
    \/ CreatePlaylist
    \/ GetPlaylist
    \/ DeletePlaylist
    \/ Tick

\* the playlist routes read none of the keys of Config the resolution uses
PlaylistInit == Init /\ ~youtubeKey /\ ~tidalCred

PlaylistSpec == PlaylistInit /\ [][PlaylistNext]_vars

(***************************************************************************)
(* utils/url_parser.py on its own: URLParser.parse called on a url, and    *)
(* called again on the same url.                                           *)
(***************************************************************************)
\* The url variants of one track: web player, app scheme, localized path,
\* trailing query, other hosts of the platform, blanks around the url.
UrlVariants(p, id) ==
    CASE p = "spotify" ->
            {"https://open.spotify.com/track/" \o id,
             "spotify:track:" \o id,
             "https://open.spotify.com/intl-de/track/" \o id,
             "https://open.spotify.com/track/" \o id \o "?si=0a1b2c",
             "https://open.spotify.com/intl-de/track/" \o id \o "?si=0a1b2c",
             "  https://open.spotify.com/track/" \o id \o " ",
             "HTTPS://OPEN.SPOTIFY.COM/track/" \o id}
      [] p = "tidal" ->
            {"https://tidal.com/track/" \o id,
             "https://tidal.com/browse/track/" \o id,
             "https://listen.tidal.com/track/" \o id,
             "https://tidal.com/track/" \o id \o "/u",
             "https://tidal.com/browse/track/" \o id \o "/u",
             "https://tidal.com/browse/track/" \o id \o "?u",
             "tidal://tidal.com/track/" \o id}
      [] p = "deezer" ->
            {"https://www.deezer.com/track/" \o id,
             "https://www.deezer.com/en/track/" \o id,
             "https://deezer.com/track/" \o id \o "?utm_source=share",
             "https://deezer.page.link/?link=https://www.deezer.com/track/" \o id,
             "deezer://www.deezer.com/track/" \o id}
      [] p = "youtube" ->
            {"https://www.youtube.com/watch?v=" \o id,
             "https://youtu.be/" \o id,
             "https://music.youtube.com/watch?v=" \o id,
             "https://www.youtube.com/shorts/" \o id,
             "https://youtu.be/" \o id \o "?t=10",
             "https://www.youtube.com/watch?v=" \o id \o "&list=PL1",
             "vnd.youtube://www.youtube.com/watch?v=" \o id}
      [] p = "appleMusic" ->
            {"https://music.apple.com/us/album/discovery/697194953?i=" \o id,
             "https://music.apple.com/de/album/discovery/697194953?i=" \o id,
             "https://music.apple.com/us/album/discovery/697194953?i=" \o id \o "&l=en",
             "https://music.apple.com/us/song/one-more-time/" \o id,
             "https://music.apple.com/us/song/one-more-time/" \o id \o "?l=en",
             "music://music.apple.com/us/album/discovery/697194953?i=" \o id}
      [] p = "amazonMusic" ->
            {"https://music.amazon.com/tracks/" \o id,
             "https://music.amazon.com/tracks/" \o id \o "?ref=dm_sh",
             "https://www.amazon.com/music/player/tracks/" \o id}

\* the tracks of the model: a platform and the track's id on it
ParserTracks ==
    {[platform |-> "spotify", id |-> "3n3Ppam7vgaVa1iaRUc9Lp"],
     [platform |-> "spotify", id |-> "sp1"],
     [platform |-> "tidal", id |-> "258735410"],
     [platform |-> "deezer", id |-> "3135556"],
     [platform |-> "youtube", id |-> "FGBhQbmPwH8"],
     [platform |-> "youtube", id |-> "a_b-C1"],
     [platform |-> "appleMusic", id |-> "697195462"],
     [platform |-> "amazonMusic", id |-> "B00005NHG2"]}

\* every variant with its track
ParserVariants ==
    UNION {{[platform |-> t.platform, id |-> t.id, url |-> u] :
               u \in UrlVariants(t.platform, t.id)} : t \in ParserTracks}

\* urls that are no track url: empty and blank input, hosts of no platform
\* (also with a platform's url in the query or in the path), hosts of a
\* platform with a path of another shape
OtherInputs ==
    {None, "", "   ",
     "https://example.com/track/12345",
     "https://example.com/r?to=https://open.spotify.com/track/sp1",
     "https://example.com/tidal.com/track/258735410",
     "https://open.spotify.com/album/4m2880jivSbbyEGAKfITCa",
     "https://open.spotify.com/intl-pt-BR/track/sp1",
     "https://tidal.com/browse/album/258735409",
     "https://www.deezer.com/en/album/302127",
     "https://www.youtube.com/playlist?list=PL1",
     "https://music.apple.com/us/album/discovery/697194953",
     "https://music.amazon.com/playlists/B00005NHG2"}

ParserInputs == {v.url : v \in ParserVariants} \cup OtherInputs

\* URLParser.parse is a pure function: its values on the urls of the model
ParsedInputs == [u \in ParserInputs |-> URLParserParse(u)]

\* URLParser.parse(url) is called; platform, track_id = parsed
ParseUrl ==
    /\ pc = "idle"
    /\ \E u \in ParserInputs :
          /\ music_url' = u
          /\ platform' = ParsedInputs[u].platform
          /\ track_id' = ParsedInputs[u].track_id
    /\ calls' = <<"URLParser.parse">>
    /\ pc' = "parsed"
    /\ UNCHANGED batchLocals
    /\ UNCHANGED others
    /\ UNCHANGED <<config, extractorTok, searcherTok, endpoint, metadata, primary, isrc,
                   cover, links, nextSearcher, inflight, sres, lastFailed, response>>

\* URLParser.parse(url) is called again on the same url and returns
ParseAgain ==
    /\ pc = "parsed"
    /\ calls' = Append(calls, "URLParser.parse")
    /\ Return(ParsedInputs[music_url])
    /\ UNCHANGED batchLocals
    /\ UNCHANGED others
    /\ UNCHANGED <<config, extractorTok, searcherTok, endpoint, music_url, platform,
                   track_id, metadata, primary, isrc, cover, links, nextSearcher,
                   inflight, sres, lastFailed>>

ParserNext ==
    \/ ParseUrl
    \/ ParseAgain
    \/ Finish

ParserSpec == Init /\ [][ParserNext]_vars

(***************************************************************************)
(* extractors/tidal.py on its own: calls of get_track_metadata on          *)
(* tidal_extractor and of search_track on tidal_searcher.extractor.  The   *)
(* tokens stay with the instances from one call to the next.               *)
(***************************************************************************)
\* one call of TidalExtractor.get_track_metadata, from entry to return
GetTrackMetadataCall ==
    /\ pc = "idle"
    /\ endpoint' = "get_track_metadata"
    /\ track_id' = "258735410"
    /\ \E o \in {[r |-> TidalGetTrackMetadata(tidalCred, extractorTok, "258735410", up),
                 q |-> TidalRequest(tidalCred, extractorTok, up).requests] :
                    up \in TidalTrackUps} :
          /\ extractorTok' = o.r.tok
          /\ metadata' = o.r.res
          /\ calls' = o.q
    /\ pc' = "done"
    /\ UNCHANGED batchLocals
    /\ UNCHANGED others
    /\ UNCHANGED <<config, searcherTok, music_url, platform, primary, isrc, cover,
                   links, nextSearcher, inflight, sres, lastFailed, response>>

\* one call of TidalExtractor.search_track, from entry to return
SearchTrackCall ==
    /\ pc = "idle"
    /\ endpoint' = "search_track"
    /\ \E o \in {[r |-> TidalSearchTrack(tidalCred, searcherTok, ARTIST, TITLE, None, up),
                 q |-> TidalRequest(tidalCred, searcherTok, up).requests] :
                    up \in TidalSearchUps} :
          /\ searcherTok' = o.r.tok
          /\ metadata' = o.r.res
          /\ calls' = o.q
    /\ pc' = "done"
    /\ UNCHANGED batchLocals
    /\ UNCHANGED others
    /\ UNCHANGED <<config, extractorTok, music_url, platform, track_id, primary, isrc,
                   cover, links, nextSearcher, inflight, sres, lastFailed, response>>

TidalNext ==
    \/ GetTrackMetadataCall
    \/ SearchTrackCall
    \/ Finish

TidalSpec == Init /\ [][TidalNext]_vars

(***************************************************************************)
(* extractors/tidal.py under a threaded server: every worker thread calls  *)
(* get_track_metadata on the one module-level tidal_extractor, app.py line *)
(* 34.  The method takes no lock; a thread can be suspended wherever it    *)
(* waits for an HTTP response.                                             *)
(***************************************************************************)
\* what a call on the extractor leaves alone, the token fields apart
requestVars == <<config, searcherTok, pc, endpoint, locals, calls, response, batchLocals>>

\* f'{self.token_type} {self.access_token}', lines 81 and 95
AuthorizationHeader(tok) == tok.token_type \o " " \o tok.access_token

\* thread w at position p with the header h
ThreadAt(w, p, h) == [threads EXCEPT ![w] = [pc |-> p, headers |-> h, result |-> Nil]]

\* thread w returns r from get_track_metadata
ThreadReturns(w, r) ==
    [threads EXCEPT ![w] = [pc |-> "returned", headers |-> threads[w].headers,
                            result |-> r]]

\* lines 71-90: the call starts; without a token the POST of
\* _get_access_token is sent, with one the GET is
ThreadEnter(w) ==
    /\ threads[w].pc = "idle"
    /\ IF ~Truthy(extractorTok.access_token)
       THEN IF ~tidalCred
            THEN threads' = ThreadReturns(w, Nil)
            ELSE threads' = ThreadAt(w, "token", None)
       ELSE threads' = ThreadAt(w, "request", AuthorizationHeader(extractorTok))
    /\ UNCHANGED <<requestVars, extractorTok, search, singleLinks, share, playlistVars>>

\* lines 45-58, then 73-90 or 94-96: the auth endpoint answers the POST of
\* thread w; the thread writes the token fields and sends the GET
ThreadTokenAnswer(w) ==
    /\ threads[w].pc \in {"token", "refresh"}
    /\ \E auth \in AuthAnswers :
          LET r == TidalGetAccessToken(tidalCred, extractorTok, auth) IN
          /\ extractorTok' = r.tok
          /\ IF r.ok
             THEN threads' = ThreadAt(w, IF threads[w].pc = "token" THEN "request"
                                         ELSE "retry",
                                      AuthorizationHeader(r.tok))
             ELSE threads' = ThreadReturns(w, Nil)
    /\ UNCHANGED <<requestVars, search, singleLinks, share, playlistVars>>

\* lines 90-142: the API answers the GET of thread w; on the first 401 the
\* POST of _get_access_token is sent again
ThreadRequestAnswer(w) ==
    /\ threads[w].pc \in {"request", "retry"}
    /\ \E a \in TidalTrackAnswers :
          IF a.status = "401" /\ threads[w].pc = "request"
          THEN IF ~tidalCred
               THEN threads' = ThreadReturns(w, Nil)
               ELSE threads' = ThreadAt(w, "refresh", threads[w].headers)
          ELSE IF a.status = "ok"
          THEN threads' = ThreadReturns(w,
                              [id |-> "258735410", title |-> a.title, artist |-> a.artist,
                               isrc |-> a.isrc, thumbnailUrl |-> a.imageCover,
                               url |-> "https://tidal.com/browse/track/258735410",
                               apiProvider |-> "tidal", platforms |-> <<"tidal">>])
          ELSE threads' = ThreadReturns(w, Nil)
    /\ UNCHANGED <<requestVars, extractorTok, search, singleLinks, share, playlistVars>>

\* the request of thread w is answered; the thread is free again
ThreadDone(w) ==
    /\ threads[w].pc = "returned"
    /\ threads' = [threads EXCEPT ![w] = IdleThread]
    /\ UNCHANGED <<requestVars, extractorTok, search, singleLinks, share, playlistVars>>

ConcurrentNext ==
    \/ \E w \in Workers : ThreadEnter(w)
    \/ \E w \in Workers : ThreadTokenAnswer(w)
    \/ \E w \in Workers : ThreadRequestAnswer(w)
    \/ \E w \in Workers : ThreadDone(w)

ConcurrentSpec == Init /\ [][ConcurrentNext]_vars

(***************************************************************************)
(* extractors/spotify.py: search_track called with any arguments           *)
(***************************************************************************)
\* the artists, titles and ISRC arguments of the calls
SearchArtists == {ARTIST, "Justice"}
SearchIsrcs == {None, "", "GBDUW0000001"}

\* one call of spotify_extractor.search_track
SpotifySearchCall ==
    /\ \E artist \in SearchArtists, i \in SearchIsrcs, up \in SpotifySearchUps :
          search' = [artist |-> artist, title |-> TITLE, isrc |-> i, up |-> up,
                     queries |-> SpotifySearchQueries(artist, TITLE, i, up),
                     result |-> SpotifySearchTrack(artist, TITLE, i, up)]
    /\ UNCHANGED <<requestVars, extractorTok, threads, singleLinks, share, playlistVars>>

SpotifySearchNext == SpotifySearchCall

SpotifySearchSpec == Init /\ [][SpotifySearchNext]_vars

(***************************************************************************)
(* Properties of the single-url resolution (Spec).                         *)
(***************************************************************************)
\* C1: in a successful resolution whose source platform is tidal, deezer,
\* appleMusic, amazonMusic or youtube, the response's entry for the source
\* platform is the one built from the source extractor's metadata (its url
\* and its id), whatever the searchers return.  The searcher's result for
\* the same platform is written over it, lines 502-538.
C1_SourceLinkKept ==
    (pc = "done" /\ endpoint = "links" /\ response.status = 200
     /\ platform \in {"tidal", "deezer", "appleMusic", "amazonMusic", "youtube"})
    => response.linksByPlatform[platform]
         = Link(primary.url, Upper(platform) \o "::TRACK::" \o primary.id)

\* C2: in every successful resolution the top-level entityUniqueId is
\* UPPER(source platform) ::TRACK:: the id URLParser.parse took from the
\* url.  extract_from_deezer and extract_from_youtube return the Spotify
\* result, whose id is the Spotify id.
C2_EntityIdNative ==
    (pc = "done" /\ endpoint = "links" /\ response.status = 200)
    => response.entityUniqueId = Upper(platform) \o "::TRACK::" \o track_id

\* C3, as stated: when the source platform is Spotify no Spotify search
\* call is made between the extraction and the start of the aggregation.
C3_SpotifySkipsSearch ==
    (pc = "aggregate" /\ platform = "spotify")
    => \A k \in 1..Len(calls) : calls[k] # "spotify_extractor.search_track"

\* C3: for every source platform, Spotify too, exactly one Spotify search
\* call is made between the extraction and the start of the aggregation,
\* and it is the last call before the aggregation.
C3_SearchForEverySource ==
    pc = "aggregate"
    => /\ Cardinality({k \in 1..Len(calls) :
                          calls[k] = "spotify_extractor.search_track"}) = 1
       /\ calls[Len(calls)] = "spotify_extractor.search_track"

\* the Spotify search was made for a Spotify url
C3_Witness ==
    /\ pc = "aggregate"
    /\ platform = "spotify"
    /\ calls = <<"URLParser.parse", "spotify_extractor.get_track_metadata",
                 "spotify_extractor.search_track">>

\* C4: whenever the primary metadata has no ISRC and the secondary Spotify
\* search returned a result with an ISRC, the reconciled metadata carries
\* that ISRC, with or without a thumbnail in the result.  The backfill is
\* inside the branch taken only when the result has a thumbnail.
C4_IsrcBackfilled ==
    (primary # Nil /\ cover # Nil /\ ~Truthy(Get(primary, "isrc"))
     /\ Truthy(Get(cover, "isrc")))
    => Get(metadata, "isrc") = cover.isrc

\* C5: when the secondary Spotify search returned a result with a
\* thumbnail, the reconciled metadata's thumbnail is that thumbnail, and so
\* is the thumbnailUrl of the response.
C5_SpotifyThumbnail ==
    (cover # Nil /\ Truthy(Get(cover, "thumbnail")))
    => /\ Get(metadata, "thumbnail") = cover.thumbnail
       /\ (pc = "done" /\ response.status = 200)
          => response.entity.thumbnailUrl = cover.thumbnail

\* a response carries the Spotify thumbnail where the primary metadata had
\* another one
C5_Witness ==
    /\ pc = "done"
    /\ response.status = 200
    /\ cover # Nil
    /\ Truthy(Get(cover, "thumbnail"))
    /\ Truthy(Get(primary, "thumbnail"))
    /\ primary.thumbnail # cover.thumbnail
    /\ response.entity.thumbnailUrl = cover.thumbnail

\* C6: when the secondary Spotify search fails (an error, no result), the
\* reconciled metadata equals the primary extractor's metadata field for
\* field and the resolution completes with a 200.
C6_SecondaryFailureKeepsPrimary ==
    (endpoint = "links" /\ pc \in {"aggregate", "search", "done"}
     /\ primary # Nil /\ cover = Nil)
    => /\ metadata = primary
       /\ pc = "done" => response.status = 200

\* a resolution completed after a failed secondary search
C6_Witness ==
    /\ pc = "done"
    /\ endpoint = "links"
    /\ primary # Nil
    /\ cover = Nil
    /\ metadata = primary
    /\ response.status = 200
    /\ response.entity.id = primary.id

\* C7: when a searcher's upstream call raises or times out during the
\* aggregation, the handler goes on and answers 200; every searcher's
\* entries in the link map, and in the response, are the ones built from
\* that searcher's own result; the failing searcher's entry is a fallback
\* (search) link.
C7_SearcherIsolation ==
    (endpoint = "links" /\ DOMAIN sres # {})
    => /\ pc \in {"search", "done"}
       /\ pc = "done" => response.status = 200
       /\ \A t \in DOMAIN sres :
             LET own == MergeResult(t, EmptyDict, sres[t]) IN
             \A k \in DOMAIN own :
                /\ k \in DOMAIN links
                /\ links[k] = own[k]
                /\ pc = "done" => /\ k \in DOMAIN response.linksByPlatform
                                  /\ response.linksByPlatform[k] = own[k]
       /\ lastFailed # None => sres[lastFailed].is_search

\* Deezer's call failed after YouTube's call found a video: YouTube's
\* entries are the found ones, Deezer's entry is the search link
C7_Witness ==
    /\ pc = "search"
    /\ lastFailed = "deezer"
    /\ DOMAIN sres = {"youtube", "deezer"}
    /\ ~sres["youtube"].is_search
    /\ links["youtubeMusic"].url = "https://music.youtube.com/watch?v=FGBhQbmPwH8"
    /\ links["deezer"].url = "https://www.deezer.com/search/Daft+Punk+One+More+Time"
    /\ response = NoResponse

C9_BatchPartition ==
    (pc = "done" /\ endpoint = "batch" /\ IsList(urls)
     /\ Len(urls.list) >= 1 /\ Len(urls.list) <= 10)
    => LET n == Len(urls.list)
           E == {response.errors[k].index : k \in 1..Len(response.errors)}
           S == (0..(n - 1)) \ E
       IN  /\ response.status = 200
           /\ response.success_count = Len(response.tracks)
           /\ response.failed_count = Len(response.errors)
           /\ response.success_count + response.failed_count = n
           /\ E \subseteq 0..(n - 1)
           /\ Cardinality(E) = Len(response.errors)
           /\ \A k \in 1..Len(response.errors) :
                 response.errors[k].url = urls.list[response.errors[k].index + 1]
           /\ \A j \in 1..Len(response.tracks) :
                 \E i \in S : /\ Cardinality({x \in S : x < i}) = j - 1
                              /\ response.tracks[j].original_url = urls.list[i + 1]

\* a batch of 10 with an unsupported url, an item that raised and a track
\* not found, and tracks after them
C9_Witness ==
    /\ pc = "done"
    /\ endpoint = "batch"
    /\ IsList(urls)
    /\ Len(urls.list) = 10
    /\ response.status = 200
    /\ response.success_count = 3
    /\ response.failed_count = 7
    /\ response.errors[1] = [index |-> 0, url |-> JStr("https://example.com/track/12345"),
                             error |-> "Unsupported URL format"]
    /\ \E k \in 1..Len(response.errors) :
          response.errors[k].error = "'int' object has no attribute 'strip'"
    /\ \E k \in 1..Len(response.errors) : response.errors[k].error = "Track not found"
    /\ response.tracks[3].original_url = JStr("https://tidal.com/browse/track/258735410")

\* C10: a batch of more than 10 urls is answered 400 at once: nothing is
\* parsed, extracted or searched and no track or error is recorded.
C10_TooManyRejected ==
    (endpoint = "batch" /\ IsList(urls) /\ Len(urls.list) > 10)
    => /\ pc = "done"
       /\ response = [status |-> 400, error |-> "Maximum 10 URLs allowed"]
       /\ calls = <<>>
       /\ idx = 0
       /\ results = <<>>
       /\ errors = <<>>

\* 11 urls, supported ones among them, were rejected
C10_Witness ==
    /\ pc = "done"
    /\ endpoint = "batch"
    /\ IsList(urls)
    /\ Len(urls.list) = 11
    /\ \E i \in 1..11 : ~ParsedItems[urls.list[i]].raised
                        /\ ParsedItems[urls.list[i]].parsed # NotParsed
    /\ response.status = 400
    /\ calls = <<>>

(***************************************************************************)
(* Properties of the statuses and of the link table (Spec).                *)
(***************************************************************************)
\* C11: a request to /v1-alpha.1/links is answered 400 exactly when the url
\* parameter is missing or URLParser.parse does not recognise it, 404
\* exactly when the url is recognised and the source platform's extractors
\* returned no metadata, and 200 with a payload otherwise, whatever the
\* secondary Spotify search and the searchers' upstream calls answered.
C11_StatusByOutcome ==
    (pc = "done" /\ endpoint = "links")
    => LET recognised == music_url # None /\ ParsedLinkInputs[music_url] # NotParsed IN
       /\ response.status \in {200, 400, 404}
       /\ response.status = 400 <=> ~recognised
       /\ response.status = 404 <=> (recognised /\ primary = Nil)
       /\ response.status = 200 <=> (recognised /\ primary # Nil)
       /\ response.status = 200 => "linksByPlatform" \in DOMAIN response

\* a 200 after the secondary Spotify search returned nothing and the
\* YouTube, Deezer and TIDAL searchers found no track
C11_Witness ==
    /\ pc = "done"
    /\ endpoint = "links"
    /\ response.status = 200
    /\ primary # Nil
    /\ cover = Nil
    /\ youtubeClient
    /\ sres["youtube"].is_search
    /\ sres["deezer"].is_search
    /\ sres["tidal"].is_search

\* C12: an exception raised while a request is handled is answered with
\* the generic 500, whose body is "Internal server error" and carries no
\* text of the exception.  For the batch endpoint: when URLParser.parse
\* raised on an item of the array, the answer is that 500.  The loop's own
\* except clause, lines 272-278, catches it first and puts str(e) in the
\* errors of a 200.
C12_ExceptionIsGeneric500 ==
    (pc = "done" /\ endpoint = "batch" /\ IsList(urls)
     /\ Len(urls.list) \in 1..MaxBatchUrls
     /\ \E i \in 1..Len(urls.list) : ParsedItems[urls.list[i]].raised)
    => response = BuildErrorResponse("Internal server error", 500)

\* the string s begins with pre
StartsWith(s, pre) == Len(s) >= Len(pre) /\ SubSeq(s, 1, Len(pre)) = pre

SearcherKeys(s) == IF s = "youtube" THEN {"youtubeMusic", "youtube"} ELSE {s}

\* C14: every entry of the answer's link table carries the search-fallback
\* flag of the searcher result it was built from, so that a search link and
\* a link to a found track can be told apart by the flag.  The entries
\* built at lines 497-538 and copied at response_builder.py:42-52 have the
\* fields url and entityUniqueId only; is_search is not copied.
C14_FlagInResponse ==
    (pc = "done" /\ endpoint = "links" /\ response.status = 200)
    => \A s \in DOMAIN sres : \A k \in SearcherKeys(s) :
          LET e == response.linksByPlatform[k] IN
          \/ "isSearchFallback" \in DOMAIN e /\ e.isSearchFallback = sres[s].is_search
          \/ "is_search" \in DOMAIN e /\ e.is_search = sres[s].is_search

\* C15: every entry of the answer's link table has the entityUniqueId
\* UPPER(platform key) ::TRACK:: followed by the platform's track id, or by
\* unknown when the entry was built from a search fallback; always unknown
\* for appleMusic and amazonMusic.  The code writes YOUTUBE::VIDEO:: for the
\* keys youtubeMusic and youtube, ::SONG:: for appleMusic and amazonMusic,
\* and the id search for TIDAL's fallback.
C15_EntityIdPerPlatform ==
    (pc = "done" /\ endpoint = "links" /\ response.status = 200)
    => \A k \in DOMAIN response.linksByPlatform :
          LET e == response.linksByPlatform[k]
              pre == Upper(k) \o "::TRACK::"
              from == {s \in DOMAIN sres : k \in SearcherKeys(s)}
          IN  /\ StartsWith(e.entityUniqueId, pre)
              /\ k \in {"appleMusic", "amazonMusic"} => e.entityUniqueId = pre \o "unknown"
              /\ \A s \in from : sres[s].is_search => e.entityUniqueId = pre \o "unknown"

\* C19: a TIDAL url is resolved by three strategies tried in order, the
\* page scrape, the OAuth2 API, the public API without credentials, each
\* when the one before returned nothing, and the 404 "TIDAL track not
\* found" is answered after the third has failed.  Lines 408-419 call
\* scrape_tidal and get_track_metadata and then answer the 404;
\* TidalExtractor._get_track_public is called by no handler.
C19_ThreeStrategies ==
    (pc = "done" /\ endpoint = "links" /\ platform = "tidal" /\ response.status = 404)
    => /\ Len(calls) = 4
       /\ calls[2] = "web_scraper.scrape_tidal"
       /\ calls[3] = "tidal_extractor.get_track_metadata"
       /\ calls[4] = "tidal_extractor._get_track_public"

(***************************************************************************)
(* Properties of the link maps of the batch endpoint (BatchSpec).          *)
(***************************************************************************)
\* C16: a link map with a youtubeMusic entry built from a found video has
\* a youtube entry with the same video id.  For the tracks of a batch
\* answer: lines 222-228 write youtubeMusic only, the youtube_url of the
\* searcher's result is not used.
C16_YoutubePaired ==
    (pc = "done" /\ endpoint = "batch" /\ response.status = 200)
    => \A j \in 1..Len(response.tracks) :
          LET l == response.tracks[j].links IN
          ("youtubeMusic" \in DOMAIN l
           /\ l["youtubeMusic"].entityUniqueId # "YOUTUBE::VIDEO::unknown")
          => /\ "youtube" \in DOMAIN l
             /\ l["youtube"].entityUniqueId = l["youtubeMusic"].entityUniqueId

(***************************************************************************)
(* Properties of URLParser.parse (ParserSpec).                             *)
(***************************************************************************)
\* C17: for every track and every accepted variant of its url (web player,
\* app scheme, localized path, trailing query) URLParser.parse returns the
\* track's platform and id, the same pair for all the variants; a second
\* call on the same url returns the same pair, and the calls leave the
\* state of the program as it was.
C17_VariantsAgree ==
    /\ pc \in {"parsed", "done"}
       => \A v \in ParserVariants :
             v.url = music_url => platform = v.platform /\ track_id = v.id
    /\ pc = "done" => response = [platform |-> platform, track_id |-> track_id]
    /\ extractorTok = NoToken /\ searcherTok = NoToken
    /\ metadata = Nil /\ links = EmptyDict /\ results = <<>>

\* the Spotify URI of a track was parsed twice, to the pair the web url of
\* the track gives
C17_Witness ==
    /\ pc = "done"
    /\ music_url = "spotify:track:3n3Ppam7vgaVa1iaRUc9Lp"
    /\ calls = <<"URLParser.parse", "URLParser.parse">>
    /\ response = ParsedInputs["https://open.spotify.com/intl-de/track/3n3Ppam7vgaVa1iaRUc9Lp?si=0a1b2c"]
    /\ response = [platform |-> "spotify", track_id |-> "3n3Ppam7vgaVa1iaRUc9Lp"]

\* the smallest element of a non-empty set of numbers
Min(S) == CHOOSE i \in S : \A j \in S : i <= j

\* the host of a url: the text between :// and the next /, ? or #
HostOf(u) ==
    LET starts == {i \in 1..(Len(u) - 2) : SubSeq(u, i, i + 2) = "://"} IN
    IF starts = {} THEN ""
    ELSE LET b == Min(starts) + 3
             ends == {j \in b..Len(u) : CharAt(u, j) \in {"/", "?", "#"}}
             e == IF ends = {} THEN Len(u) + 1 ELSE Min(ends)
         IN  SubSeq(u, b, e - 1)

\* the hosts of URLParser.PATTERNS
PlatformHosts ==
    {"open.spotify.com", "music.apple.com", "youtube.com", "youtu.be",
     "music.youtube.com", "deezer.com", "deezer.page.link", "tidal.com",
     "listen.tidal.com", "music.amazon.com", "amazon.com"}

\* h is a platform's host or a subdomain of it, ignoring case
SupportedHost(h) ==
    \E d \in PlatformHosts :
       /\ Len(h) >= Len(d)
       /\ LitAt(d, h, Len(h) - Len(d) + 1)
       /\ Len(h) > Len(d) => CharAt(h, Len(h) - Len(d)) = "."

\* C18: URLParser.parse returns None for empty and blank input and for
\* every url whose host is not a platform's host, also when a platform's
\* url is part of the path or of the query.  re.search looks for the
\* pattern anywhere in the string, so such a url is parsed as the
\* platform's.
C18_ForeignHostRejected ==
    pc \in {"parsed", "done"}
    => /\ (music_url = None \/ Strip(music_url) = "") => platform = None
       /\ (music_url # None /\ HostOf(Strip(music_url)) # ""
           /\ ~SupportedHost(HostOf(Strip(music_url))))
          => platform = None /\ track_id = None

(***************************************************************************)
(* Properties of the TIDAL token handling (TidalSpec).                     *)
(***************************************************************************)
\* C20: in one call of get_track_metadata or search_track a 401 answer to
\* the catalog request is followed by exactly one token request, and, when
\* that one succeeds, by exactly one repeat of the catalog request and
\* nothing more; when the repeat is answered 401 too, or the token request
\* fails, the call returns None.  A call makes at most two catalog
\* requests and at most two token requests.
C20_OneRefreshOneRetry ==
    (pc = "done" /\ endpoint \in {"get_track_metadata", "search_track"})
    => LET n == Len(calls)
           cat == {k \in 1..n : calls[k].kind = "catalog"}
           tok == {k \in 1..n : calls[k].kind = "token"}
       IN  /\ Cardinality(cat) <= 2
           /\ Cardinality(tok) <= 2
           /\ n <= 4
           /\ \A k \in cat :
                 IF calls[k].status = "401" /\ k = Min(cat)
                 THEN /\ k + 1 <= n
                      /\ calls[k + 1].kind = "token"
                      /\ IF calls[k + 1].ok
                         THEN n = k + 2 /\ calls[k + 2].kind = "catalog"
                         ELSE n = k + 1 /\ metadata = Nil
                 ELSE k = n
           /\ \A k \in tok : k < n => calls[k].ok /\ calls[k + 1].kind = "catalog"
           /\ (n > 0 /\ calls[n] \in {CatalogRequest("401"), CatalogRequest("error"),
                                      TokenRequest(FALSE)})
              => metadata = Nil
           /\ metadata # Nil => (n > 0 /\ calls[n] = CatalogRequest("ok"))

\* a call that had no token: the token request, the catalog request
\* answered 401, the one refresh, the one repeat answered 401, None
C20_Witness ==
    /\ pc = "done"
    /\ endpoint = "get_track_metadata"
    /\ calls = <<TokenRequest(TRUE), CatalogRequest("401"), TokenRequest(TRUE),
                 CatalogRequest("401")>>
    /\ metadata = Nil
    /\ extractorTok.access_token = "token1"

(***************************************************************************)
(* Properties of the token under concurrent requests (ConcurrentSpec).     *)
(***************************************************************************)
\* C21: when several requests use the same TidalExtractor at the same
\* time, at most one token request is in flight at any time.  Nothing in
\* get_track_metadata or _get_access_token serialises the threads: two
\* threads that find no token, or are both answered 401, each send their
\* own POST and each write access_token and token_type.
C21_SingleFlight ==
    Cardinality({w \in Workers : threads[w].pc \in {"token", "refresh"}}) <= 1

(***************************************************************************)
(* Properties of SpotifyExtractor.search_track (SpotifySearchSpec).        *)
(***************************************************************************)
TextQuery(c) == "artist:" \o c.artist \o " track:" \o c.title

\* C22: search_track sends the ISRC query first when an ISRC is supplied and
\* returns the metadata of whatever item that query answers; it sends the
\* free-text query exactly when no ISRC was supplied or the ISRC query
\* answered no items, and returns the metadata of the first item of that
\* query without comparing it with the artist or title asked for.
C22_IsrcFirstThenText ==
    search # Nil =>
        LET c == search
            n == Len(c.queries) IN
        /\ Truthy(c.isrc) <=> (n >= 1 /\ c.queries[1] = "isrc:" \o c.isrc)
        /\ (\E k \in 1..n : c.queries[k] = TextQuery(c))
              <=> (~Truthy(c.isrc) \/ c.up.isrcQ = "empty")
        /\ \A k \in 1..n : c.queries[k] = TextQuery(c) => k = n
        /\ (Truthy(c.isrc) /\ c.up.isrcQ \in SpotifyIds)
              => c.result = SpotifyGetTrackMetadata(c.up.isrcQ, c.up.track)
        /\ (c.queries[n] = TextQuery(c) /\ c.up.textQ \in SpotifyIds)
              => c.result = SpotifyGetTrackMetadata(c.up.textQ, c.up.track)
        /\ (c.queries[n] = TextQuery(c) /\ c.up.textQ \notin SpotifyIds)
              => c.result = Nil

\* an ISRC query that answered nothing was followed by the free-text query,
\* whose first item, by another artist than the one asked for, was returned
C22_Witness ==
    /\ search # Nil
    /\ Len(search.queries) = 2
    /\ search.result # Nil
    /\ search.result.artist # search.artist

(***************************************************************************)
(* Properties of the spotify target link (Spec).                           *)
(***************************************************************************)
\* the spotify_extractor.search_track calls of the request so far
SpotifySearches == Cardinality({k \in 1..Len(calls) :
                                   calls[k] = "spotify_extractor.search_track"})

\* the spotify entry of a non-Spotify source has been built
SpotifyTargetBuilt ==
    /\ endpoint = "links"
    /\ pc = "search" \/ (pc = "done" /\ response.status = 200)
    /\ platform # "spotify"

\* C23, as stated: with a non-Spotify source the pipeline makes one Spotify
\* search only, also when the secondary search returned nothing.
C23_NeverSecondSearch == SpotifyTargetBuilt => SpotifySearches = 1

\* C23: with a non-Spotify source, when the Reconciler's secondary search
\* returned a result the spotify entry is built from it and no second
\* Spotify search is made; when it returned nothing, the same search is
\* made exactly once more, directly after the first.
C23_ReuseUnlessNothing ==
    SpotifyTargetBuilt =>
        /\ SpotifySearches = IF cover # Nil THEN 1 ELSE 2
        /\ cover # Nil =>
              Get(links, "spotify") = Link(cover.url, "SPOTIFY::TRACK::" \o cover.id)
        /\ cover = Nil =>
              \E k \in 1..(Len(calls) - 1) :
                  /\ calls[k] = "spotify_extractor.search_track"
                  /\ calls[k + 1] = "spotify_extractor.search_track"

\* the secondary search returned nothing, the search made again found the
\* track, and the response carries its link
C23_Witness ==
    /\ SpotifyTargetBuilt
    /\ pc = "done"
    /\ cover = Nil
    /\ SpotifySearches = 2
    /\ "spotify" \in DOMAIN response.linksByPlatform

(***************************************************************************)
(* Properties of the searchers' results (Spec).                            *)
(***************************************************************************)
\* the native track or video id the result r of searcher k carries, if any
NativeIdOf(k, r) == IF k = "youtube" THEN Get(r, "video_id") ELSE Get(r, "id")

NativeIds(k) ==
    CASE k = "youtube" -> YoutubeIds
      [] k = "deezer"  -> DeezerIds
      [] k = "tidal"   -> TidalIds

\* the url of the platform's text-search page
SearchPage(k) ==
    CASE k = "youtube" -> "https://music.youtube.com/search?q="
      [] k = "deezer"  -> "https://www.deezer.com/search/"
      [] k = "tidal"   -> "https://listen.tidal.com/search?q="

\* C24: every result the YouTube, Deezer and TIDAL searchers return is
\* flagged is_search exactly when it carries no native track or video id;
\* a result whose url is the platform's search page is flagged, a result
\* with a native id is not.
C24_FlagIffNoNativeId ==
    \A k \in {"youtube", "deezer", "tidal"} \cap DOMAIN sres :
        sres[k] # Nil =>
            /\ sres[k].is_search <=> NativeIdOf(k, sres[k]) \notin NativeIds(k)
            /\ sres[k].is_search <=> StartsWith(sres[k].url, SearchPage(k))

\* of the three searchers one returned a track with its id, unflagged, and
\* another the search page, flagged
C24_Witness ==
    /\ {"youtube", "deezer", "tidal"} \subseteq DOMAIN sres
    /\ sres["deezer"] = DeezerHit("3135556")
    /\ sres["tidal"].is_search
    /\ sres["tidal"].id = "search"
    /\ ~sres["youtube"].is_search

(***************************************************************************)
(* Termination of a resolution request (LiveSpec).                         *)
(***************************************************************************)
\* the most calls one request makes: the parse, the two TIDAL extraction
\* strategies, the two Spotify searches and one call per searcher
MaxCallsPerRequest == 1 + 2 + 2 + Len(SearcherOrder)

\* C25: every resolution request that has begun is answered, given that
\* each upstream call returns or times out, and the request makes a bounded
\* number of calls: no step is repeated and none waits for another request.
C25_Terminates ==
    /\ [](Len(calls) <= MaxCallsPerRequest)
    /\ (endpoint = "links" /\ pc # "done") ~> (pc = "done" /\ response.status # 0)

\* a TIDAL url was answered after both extraction strategies, both Spotify
\* searches and all five searchers were called
C25_Witness ==
    /\ pc = "done"
    /\ endpoint = "links"
    /\ response.status = 200
    /\ Len(calls) = MaxCallsPerRequest

(***************************************************************************)
(* The batch endpoint against the single-url endpoint (BatchSpec).         *)
(***************************************************************************)
\* C26: the links convert_batch appends for a url are, key for key, url for
\* url and entityUniqueId for entityUniqueId, the links the single-url
\* endpoint builds for the same url and the same upstream answers.  The
\* loop of convert_batch is its own copy of the pipeline: it adds no entry
\* for a source platform other than Spotify and no 'youtube' entry.
C26_BatchLinksAsSingle ==
    (pc = "batch_loop" /\ singleLinks # Nil)
    => results[Len(results)].links = singleLinks
(***************************************************************************)
(* The share links (ShareSpec).                                            *)
(***************************************************************************)
\* the extractor _process_music_link calls for a platform tag of
\* platform_urls; URLParser has one 'youtube' platform for both YouTube tags
ShareExtractor(tag) ==
    ExtractorCall(IF tag = "youtubeMusic" THEN "youtube" ELSE tag)

\* C27: a share link made by LinkEncoder.encode for a platform tag the
\* handler accepts and a native id of that platform does not end in a 400:
\* the reconstructed url is recognised by URLParser.parse with that id and
\* with the platform whose extractor is that tag's extractor.
C27_ShareLinkResolves ==
    (/\ endpoint = "share"
     /\ share.decoded # Nil
     /\ \E t \in ShareTracks :
           /\ share.decoded.platform = t.platform
           /\ share.decoded.track_id = t.id
           /\ share.encoded_id = LinkEncoderEncode(t.platform, t.id))
    => /\ ~(pc = "done" /\ response.status = 400)
       /\ track_id = share.decoded.track_id
       /\ platform \in {"spotify", "tidal", "appleMusic", "amazonMusic", "deezer",
                        "youtube"}
       /\ ExtractorCall(platform) = ShareExtractor(share.decoded.platform)

(***************************************************************************)
(* The thumbnail of a response without a Spotify result (Spec).            *)
(***************************************************************************)
\* C28: when the secondary Spotify search returned nothing, the
\* thumbnailUrl of the response is the thumbnail the source extractor
\* obtained (the 'thumbnailUrl' the TIDAL API strategy and the TIDAL, Apple
\* Music and Amazon Music scrapers return when they found no Spotify match).
C28_SourceThumbnail ==
    (/\ pc = "done"
     /\ endpoint = "links"
     /\ response.status = 200
     /\ platform \in {"tidal", "appleMusic", "amazonMusic"}
     /\ cover = Nil
     /\ "thumbnail" \notin DOMAIN primary)
    => response.entity.thumbnailUrl = Get(primary, "thumbnailUrl")

(***************************************************************************)
(* Properties of the playlist routes (PlaylistSpec).                       *)
(***************************************************************************)
\* C29: a stored playlist is removed only by a DELETE that carried its own
\* delete token or by a GET that arrived after its expiry, and a request
\* changes no other row; a DELETE without a token, or for a stored playlist
\* with a token that is not its own (a guess, another playlist's token),
\* returns 403 and leaves the table as it was.
C29_RemovedOnlyByOwnerOrExpiry ==
    reply # Nil =>
    LET q == reply.request
        r == reply.response
    IN  /\ \A id \in DOMAIN q.before \ DOMAIN playlists :
              /\ q.playlist_id = id
              /\ \/ q.method = "DELETE" /\ q.token = q.before[id].delete_token
                 \/ q.method = "GET" /\ q.before[id].expires_at < q.at
        /\ \A id \in DOMAIN q.before \cap DOMAIN playlists :
              playlists[id] = q.before[id]
        /\ (q.method = "DELETE" /\ q.token = "")
              => (r.status = 403 /\ playlists = q.before)
        /\ (/\ q.method = "DELETE"
            /\ q.playlist_id \in DOMAIN q.before
            /\ q.token # q.before[q.playlist_id].delete_token)
              => (r.status = 403 /\ playlists = q.before)

\* a DELETE of one stored playlist with the token of another stored
\* playlist was refused with 403 and both are still stored
C29_Witness ==
    /\ reply # Nil
    /\ reply.request.method = "DELETE"
    /\ reply.request.playlist_id = PlaylistId(1)
    /\ reply.request.token = DeleteToken(2)
    /\ DOMAIN reply.request.before = {PlaylistId(1), PlaylistId(2)}
    /\ reply.response.status = 403
    /\ playlists = reply.request.before

\* C30: a GET of a playlist whose expiry time has passed returns 404 and the
\* row is not stored afterwards (the first such GET deletes it, the later
\* ones find nothing); a GET of a playlist that is no longer stored returns
\* 404; a GET that returns 200 returns the id, title, description and
\* tracks of the playlist created with the id asked for.
C30_ExpiredNeverReturned ==
    (reply # Nil /\ reply.request.method = "GET") =>
    LET q == reply.request
        r == reply.response
        rows == {p \in {inserted[k] : k \in 1..Len(inserted)} : p.id = q.playlist_id}
    IN  /\ r.status \in {200, 404}
        /\ r.status = 200 => rows # {}
        /\ \A p \in rows :
              /\ p.expires_at < q.at
                    => (r.status = 404 /\ p.id \notin DOMAIN playlists)
              /\ p.id \notin DOMAIN q.before => r.status = 404
              /\ r.status = 200
                    => /\ r.id = p.id
                       /\ r.title = p.title
                       /\ r.description = p.description
                       /\ r.tracks = p.tracks

\* the first GET after the expiry of a stored playlist returned 404
\* 'Playlist expired' and the row is gone, while another playlist is stored
C30_Witness ==
    /\ reply # Nil
    /\ reply.request.method = "GET"
    /\ reply.request.playlist_id \in DOMAIN reply.request.before
    /\ reply.request.before[reply.request.playlist_id].expires_at < reply.request.at
    /\ reply.response = BuildErrorResponse("Playlist expired", 404)
    /\ reply.request.playlist_id \notin DOMAIN playlists
    /\ playlists # EmptyDict

====
